---- MODULE Spec2Model ----
(***************************************************************************)
(* State-machine model of the Handoff S3 authentication engine             *)
(* (rgw::HandoffHelperImpl, rgw::AuthServiceClient,                        *)
(* rgw::HandoffConfigObserver, rgw::AuthorizationParameters).              *)
(*                                                                         *)
(* Strings that the code inspects or builds (header values, environment    *)
(* keys, query parameter values) are sequences of one-character strings,   *)
(* so that prefix tests, formatting and parsing are computed.  Strings     *)
(* that the code only passes through (log and verdict messages, ids) are   *)
(* TLA+ strings.  A std::optional is a sequence of length 0 or 1.          *)
(***************************************************************************)
EXTENDS Integers, Sequences, FiniteSets, TLC

(***************************************************************************)
(* std::optional                                                           *)
(***************************************************************************)
Nothing == << >>
Some(x) == << x >>
HasValue(o) == Len(o) = 1
Value(o) == o[1]

(***************************************************************************)
(* String helpers (boost::algorithm, fmt::format)                          *)
(***************************************************************************)
starts_with(str, prefix) ==
    /\ Len(str) >= Len(prefix)
    /\ SubSeq(str, 1, Len(prefix)) = prefix

Digits == <<"0", "1", "2", "3", "4", "5", "6", "7", "8", "9">>
IsDigit(c) == \E i \in 1..Len(Digits) : Digits[i] = c
DigitVal(c) == (CHOOSE i \in 1..Len(Digits) : Digits[i] = c) - 1

Uppers == <<"A", "B", "C", "D", "E", "F", "G", "H", "I", "J", "K", "L", "M",
            "N", "O", "P", "Q", "R", "S", "T", "U", "V", "W", "X", "Y", "Z">>
Lowers == <<"a", "b", "c", "d", "e", "f", "g", "h", "i", "j", "k", "l", "m",
            "n", "o", "p", "q", "r", "s", "t", "u", "v", "w", "x", "y", "z">>
to_lower_char(c) ==
    IF \E i \in 1..Len(Uppers) : Uppers[i] = c
    THEN Lowers[CHOOSE i \in 1..Len(Uppers) : Uppers[i] = c]
    ELSE c
to_lower(str) == [i \in 1..Len(str) |-> to_lower_char(str[i])]
replace_all(str, from, to) ==
    [i \in 1..Len(str) |-> IF str[i] = from THEN to ELSE str[i]]

(***************************************************************************)
(* Literals of the source                                                  *)
(***************************************************************************)
HTTP_AUTHORIZATION ==
    <<"H","T","T","P","_","A","U","T","H","O","R","I","Z","A","T","I","O","N">>
HTTP_X_AMZ_CONTENT_SHA256 ==
    <<"H","T","T","P","_","X","_","A","M","Z","_","C","O","N","T","E","N","T",
      "_","S","H","A","2","5","6">>
HTTP_X_AMZ_ == <<"H","T","T","P","_","X","_","A","M","Z","_">>
STREAMING_PAYLOAD ==
    <<"S","T","R","E","A","M","I","N","G","-","A","W","S","4","-","H","M","A",
      "C","-","S","H","A","2","5","6","-","P","A","Y","L","O","A","D">>
AWS_SP == <<"A","W","S"," ">>
V4_CREDENTIAL ==
    <<"A","W","S","4","-","H","M","A","C","-","S","H","A","2","5","6"," ",
      "C","r","e","d","e","n","t","i","a","l","=">>
V4_SIGNEDHEADERS == <<","," ","S","i","g","n","e","d","H","e","a","d","e","r","s","=">>
V4_SIGNATURE == <<","," ","S","i","g","n","a","t","u","r","e","=">>

(***************************************************************************)
(* RGWHTTPArgs: the parsed query parameters, a map from name to value.     *)
(***************************************************************************)
exists(args, name) == name \in DOMAIN args
get_optional(args, name) ==
    IF name \in DOMAIN args THEN Some(args[name]) ELSE Nothing

(***************************************************************************)
(* Signature Input Normalizer: header synthesis                            *)
(***************************************************************************)
synthesize_v2_header(args) ==
    LET maybe_credential == get_optional(args, "AWSAccessKeyId")
        maybe_signature == get_optional(args, "Signature")
    IN  IF ~(HasValue(maybe_credential) /\ HasValue(maybe_signature))
        THEN Nothing
        ELSE Some(AWS_SP \o Value(maybe_credential) \o <<":">>
                  \o Value(maybe_signature))

synthesize_v4_header(args) ==
    LET maybe_credential == get_optional(args, "x-amz-credential")
        maybe_signedheaders == get_optional(args, "x-amz-signedheaders")
        maybe_signature == get_optional(args, "x-amz-signature")
    IN  IF ~(/\ HasValue(maybe_credential)
             /\ HasValue(maybe_signedheaders)
             /\ HasValue(maybe_signature))
        THEN Nothing
        ELSE Some(V4_CREDENTIAL \o Value(maybe_credential)
                  \o V4_SIGNEDHEADERS \o Value(maybe_signedheaders)
                  \o V4_SIGNATURE \o Value(maybe_signature))

\* Variant: the v4 credential is looked for before the v2 access key.
synthesize_auth_header_v4_first(args) ==
    IF exists(args, "x-amz-credential") THEN synthesize_v4_header(args)
    ELSE IF exists(args, "AWSAccessKeyId") THEN synthesize_v2_header(args)
    ELSE Nothing

synthesize_auth_header(args) ==
    IF exists(args, "AWSAccessKeyId") THEN synthesize_v2_header(args)
    ELSE IF exists(args, "x-amz-credential") THEN synthesize_v4_header(args)
    ELSE Nothing

(***************************************************************************)
(* absl::SimpleAtoi as called by the expiry parsers: surrounding blanks    *)
(* are skipped, one sign is accepted, every remaining character must be a  *)
(* decimal digit.  On failure the output holds the digits parsed so far.   *)
(* The model's parameter values are short, no value leaves the int range.  *)
(***************************************************************************)
RECURSIVE LeadingDigits(_)
LeadingDigits(str) ==
    IF str = << >> \/ ~IsDigit(Head(str)) THEN 0
    ELSE 1 + LeadingDigits(Tail(str))

RECURSIVE DigitsValue(_)
DigitsValue(str) ==
    IF str = << >> THEN 0
    ELSE 10 * DigitsValue(SubSeq(str, 1, Len(str) - 1)) + DigitVal(str[Len(str)])

RECURSIVE StripLeft(_)
StripLeft(str) ==
    IF str # << >> /\ Head(str) = " " THEN StripLeft(Tail(str)) ELSE str

RECURSIVE StripRight(_)
StripRight(str) ==
    IF str # << >> /\ str[Len(str)] = " "
    THEN StripRight(SubSeq(str, 1, Len(str) - 1)) ELSE str

SimpleAtoi(str) ==
    LET text == StripRight(StripLeft(str))
        signed == text # << >> /\ Head(text) \in {"-", "+"}
        negative == text # << >> /\ Head(text) = "-"
        body == IF signed THEN Tail(text) ELSE text
        k == LeadingDigits(body)
        v == DigitsValue(SubSeq(body, 1, k))
    IN  [ok |-> Len(body) > 0 /\ k = Len(body),
         value |-> IF negative THEN 0 - v ELSE v]

(***************************************************************************)
(* absl::ParseTime("%E4Y%m%d%ET%H%M%S%Ez"): YYYYMMDDTHHMMSSZ, UTC, to      *)
(* seconds since the epoch.                                                *)
(***************************************************************************)
IsLeap(y) == (y % 4 = 0 /\ y % 100 # 0) \/ y % 400 = 0
DaysInMonth(y, m) ==
    IF m = 2 THEN (IF IsLeap(y) THEN 29 ELSE 28)
    ELSE IF m \in {4, 6, 9, 11} THEN 30 ELSE 31

DaysFromCivil(y, m, d) ==
    LET yy == IF m <= 2 THEN y - 1 ELSE y
        era == yy \div 400
        yoe == yy - era * 400
        mp == IF m > 2 THEN m - 3 ELSE m + 9
        doy == (153 * mp + 2) \div 5 + d - 1
        doe == yoe * 365 + yoe \div 4 - yoe \div 100 + doy
    IN  era * 146097 + doe - 719468

ParseTime(date) ==
    LET num(a, b) == DigitsValue(SubSeq(date, a, b))
        shape == /\ Len(date) = 16
                 /\ \A i \in (1..8) \cup (10..15) : IsDigit(date[i])
                 /\ date[9] = "T"
                 /\ date[16] = "Z"
        y == num(1, 4)
        mo == num(5, 6)
        d == num(7, 8)
        h == num(10, 11)
        mi == num(12, 13)
        se == num(14, 15)
    IN  IF /\ shape
           /\ mo \in 1..12
           /\ d \in 1..DaysInMonth(y, mo)
           /\ h \in 0..23
           /\ mi \in 0..59
           /\ se \in 0..60
        THEN Some(((DaysFromCivil(y, mo, d) * 24 + h) * 60 + mi) * 60 + se)
        ELSE Nothing

(***************************************************************************)
(* Signature Input Normalizer: presigned URL expiry                        *)
(***************************************************************************)
get_v4_presigned_expiry_time(args) ==
    LET maybe_date == get_optional(args, "x-amz-date")
        maybe_expires_delta == get_optional(args, "x-amz-expires")
    IN  IF ~(HasValue(maybe_date) /\ HasValue(maybe_expires_delta))
        THEN Nothing
        ELSE LET param_time == ParseTime(Value(maybe_date))
                 delta_seconds == SimpleAtoi(Value(maybe_expires_delta)).value
             IN  IF ~HasValue(param_time) THEN Nothing
                 ELSE Some(Value(param_time) + delta_seconds)

get_v2_presigned_expiry_time(args) ==
    LET maybe_expires == get_optional(args, "Expires")
    IN  IF ~HasValue(maybe_expires) THEN Nothing
        ELSE LET parsed == SimpleAtoi(Value(maybe_expires))
             IN  IF ~parsed.ok THEN Nothing ELSE Some(parsed.value)

\* Variant: the last valid second is rejected.
valid_presigned_time_exclusive(args, now) ==
    LET maybe_expiry_time ==
            IF exists(args, "AWSAccessKeyId")
            THEN get_v2_presigned_expiry_time(args)
            ELSE IF exists(args, "x-amz-credential")
            THEN get_v4_presigned_expiry_time(args)
            ELSE Nothing
    IN  IF ~HasValue(maybe_expiry_time) THEN FALSE
        ELSE IF Value(maybe_expiry_time) <= now THEN FALSE
        ELSE TRUE

valid_presigned_time(args, now) ==
    LET maybe_expiry_time ==
            IF exists(args, "AWSAccessKeyId")
            THEN get_v2_presigned_expiry_time(args)
            ELSE IF exists(args, "x-amz-credential")
            THEN get_v4_presigned_expiry_time(args)
            ELSE Nothing
    IN  IF ~HasValue(maybe_expiry_time) THEN FALSE
        ELSE IF Value(maybe_expiry_time) < now THEN FALSE
        ELSE TRUE

(***************************************************************************)
(* Authorization Context Capture: AuthorizationParameters                  *)
(***************************************************************************)
\* Variant: the index of the last c in str.
RECURSIVE rfind(_, _)
rfind(str, c) ==
    IF str = << >> THEN 0
    ELSE IF str[Len(str)] = c THEN Len(str)
    ELSE rfind(SubSeq(str, 1, Len(str) - 1), c)

RECURSIVE find(_, _)
find(str, c) ==  \* index of the first c in str, 0 for npos
    IF str = << >> THEN 0
    ELSE IF Head(str) = c THEN 1
    ELSE LET r == find(Tail(str), c) IN IF r = 0 THEN 0 ELSE r + 1

HeaderKey(key) == to_lower(replace_all(SubSeq(key, 6, Len(key)), "_", "-"))

InvalidAuthorizationParameters ==
    [valid_ |-> FALSE, method_ |-> << >>, bucket_name_ |-> << >>,
     object_key_name_ |-> << >>, http_headers_ |-> << >>,
     http_request_path_ |-> << >>, http_query_params_ |-> << >>]

AuthorizationParameters(s) ==
    IF ~HasValue(s.method) \/ Value(s.method) = << >>
    THEN InvalidAuthorizationParameters
    ELSE IF s.relative_uri = << >> \/ Head(s.relative_uri) # "/"
    THEN [InvalidAuthorizationParameters EXCEPT !.method_ = Value(s.method)]
    ELSE LET req == Tail(s.relative_uri)
             amz == {k \in DOMAIN s.env : starts_with(k, HTTP_X_AMZ_)}
             headers == [h \in {HeaderKey(k) : k \in amz} |->
                           s.env[CHOOSE k \in amz : HeaderKey(k) = h]]
             pos == find(req, "/")
         IN  [valid_ |-> TRUE,
              method_ |-> Value(s.method),
              bucket_name_ |->
                  IF req = << >> THEN << >>
                  ELSE IF pos # 0 THEN SubSeq(req, 1, pos - 1) ELSE req,
              object_key_name_ |->
                  IF req # << >> /\ pos # 0
                  THEN SubSeq(req, pos + 1, Len(req)) ELSE << >>,
              http_headers_ |-> headers,
              http_request_path_ |-> s.request_uri,
              http_query_params_ |-> s.args]

method_to_reqmethod(method) ==
    IF method = <<"G","E","T">> THEN "HTTP_METHOD_GET"
    ELSE IF method = <<"P","U","T">> THEN "HTTP_METHOD_PUT"
    ELSE IF method = <<"P","O","S","T">> THEN "HTTP_METHOD_POST"
    ELSE IF method = <<"D","E","L","E","T","E">> THEN "HTTP_METHOD_DELETE"
    ELSE IF method = <<"H","E","A","D">> THEN "HTTP_METHOD_HEAD"
    ELSE "HTTP_METHOD_UNSPECIFIED"

(***************************************************************************)
(* HandoffAuthResult.  An error code is a sign and the name of the errno   *)
(* or RGW error macro: -EACCES is Neg("EACCES"), EACCES is Pos("EACCES").  *)
(***************************************************************************)
Neg(name) == [sign |-> -1, name |-> name]
Pos(name) == [sign |-> 1, name |-> name]
NoCode == [sign |-> 0, name |-> "0"]

OkResult(userid, message) ==
    [userid_ |-> userid, signing_key_ |-> Nothing, errorcode_ |-> NoCode,
     message_ |-> message, is_err_ |-> FALSE, err_type_ |-> "NO_ERROR"]

ErrResult(errorcode, message, err_type) ==
    [userid_ |-> "", signing_key_ |-> Nothing, errorcode_ |-> errorcode,
     message_ |-> message, is_err_ |-> TRUE, err_type_ |-> err_type]

set_signing_key(result, key) == [result EXCEPT !.signing_key_ = Some(key)]

(***************************************************************************)
(* Error Translator                                                        *)
(***************************************************************************)
auth_list ==
    << [auth_type |-> "TYPE_ACCESS_DENIED", rgw_error_code |-> Pos("EACCES")],
       [auth_type |-> "TYPE_AUTHORIZATION_HEADER_MALFORMED",
        rgw_error_code |-> Pos("ERR_INVALID_REQUEST")],
       [auth_type |-> "TYPE_EXPIRED_TOKEN", rgw_error_code |-> Pos("EACCES")],
       [auth_type |-> "TYPE_INTERNAL_ERROR",
        rgw_error_code |-> Pos("ERR_INTERNAL_ERROR")],
       [auth_type |-> "TYPE_INVALID_ACCESS_KEY_ID",
        rgw_error_code |-> Pos("ERR_INVALID_ACCESS_KEY")],
       [auth_type |-> "TYPE_INVALID_REQUEST", rgw_error_code |-> Pos("EINVAL")],
       [auth_type |-> "TYPE_INVALID_SECURITY", rgw_error_code |-> Pos("EINVAL")],
       [auth_type |-> "TYPE_INVALID_TOKEN",
        rgw_error_code |-> Pos("ERR_INVALID_IDENTITY_TOKEN")],
       [auth_type |-> "TYPE_INVALID_URI",
        rgw_error_code |-> Pos("ERR_INVALID_REQUEST")],
       [auth_type |-> "TYPE_METHOD_NOT_ALLOWED",
        rgw_error_code |-> Pos("ERR_METHOD_NOT_ALLOWED")],
       [auth_type |-> "TYPE_MISSING_SECURITY_HEADER",
        rgw_error_code |-> Pos("ERR_INVALID_REQUEST")],
       [auth_type |-> "TYPE_REQUEST_TIME_TOO_SKEWED",
        rgw_error_code |-> Pos("ERR_REQUEST_TIME_SKEWED")],
       [auth_type |-> "TYPE_SIGNATURE_DOES_NOT_MATCH",
        rgw_error_code |-> Pos("ERR_SIGNATURE_NO_MATCH")],
       [auth_type |-> "TYPE_TOKEN_REFRESH_REQUIRED",
        rgw_error_code |-> Pos("ERR_INVALID_REQUEST")] >>

\* The map that the call_once block builds from auth_list.
auth_map ==
    [ty \in {auth_list[i].auth_type : i \in 1..Len(auth_list)} |->
        auth_list[CHOOSE i \in 1..Len(auth_list) :
                    /\ auth_list[i].auth_type = ty
                    /\ \A j \in (i + 1)..Len(auth_list) :
                          auth_list[j].auth_type # ty].rgw_error_code]

\* Variant: the HTTP status is consulted before the table.
translate_status_first(auth_type, auth_http_status_code, message) ==
    IF auth_http_status_code = 400
    THEN ErrResult(Pos("EINVAL"), message, "AUTH_ERROR")
    ELSE IF auth_http_status_code = 404
    THEN ErrResult(Pos("ERR_NOT_FOUND"), message, "AUTH_ERROR")
    ELSE IF auth_type \in DOMAIN auth_map
    THEN ErrResult(auth_map[auth_type], message, "AUTH_ERROR")
    ELSE ErrResult(Pos("EACCES"), message, "AUTH_ERROR")

_translate_authenticator_error_code(auth_type, auth_http_status_code, message) ==
    IF auth_type \in DOMAIN auth_map
    THEN ErrResult(auth_map[auth_type], message, "AUTH_ERROR")
    ELSE IF auth_http_status_code = 400
    THEN ErrResult(Pos("EINVAL"), message, "AUTH_ERROR")
    ELSE IF auth_http_status_code = 404
    THEN ErrResult(Pos("ERR_NOT_FOUND"), message, "AUTH_ERROR")
    ELSE ErrResult(Pos("EACCES"), message, "AUTH_ERROR")

(***************************************************************************)
(* The Error Translator as its callers run it: the static auth_map, empty  *)
(* until the call_once block fills it one entry at a time, the static      *)
(* once_flag map_init ("clear", "active" while a caller runs the block,    *)
(* "done" afterwards), the number of entries of auth_list the block has    *)
(* inserted, the number of times the block has run to its end, and for     *)
(* each calling thread its position, arguments and result.                 *)
(***************************************************************************)
MaxThreads == 2
TranslatorThreads == 1..MaxThreads

NotCalling ==
    [pc |-> "idle", auth_type |-> "", auth_http_status_code |-> 0,
     message |-> "", result |-> Nothing]

ErrorTranslator ==
    [auth_map |-> [ty \in {} |-> NoCode], map_init |-> "clear",
     inserted |-> 0, populated |-> 0,
     threads |-> [t \in TranslatorThreads |-> NotCalling]]

\* Thread t enters the function.
translate_enter(tr, t, auth_type, auth_http_status_code, message) ==
    [tr EXCEPT !.threads[t] =
        [pc |-> "call_once", auth_type |-> auth_type,
         auth_http_status_code |-> auth_http_status_code,
         message |-> message, result |-> Nothing]]

\* Variant: a flag that is tested and set without making later callers
\* wait for the block to end.
call_once_unblocked(tr, t) ==
    IF tr.map_init = "clear"
    THEN [tr EXCEPT !.map_init = "active", !.threads[t].pc = "populate"]
    ELSE [tr EXCEPT !.threads[t].pc = "find"]

\* std::call_once(map_init, ...): the first caller runs the block, a caller
\* that arrives while it runs waits (tr is returned as it is), and a caller
\* that arrives after it has returned goes on.
call_once(tr, t) ==
    IF tr.map_init = "clear"
    THEN [tr EXCEPT !.map_init = "active", !.threads[t].pc = "populate"]
    ELSE IF tr.map_init = "active" THEN tr
    ELSE [tr EXCEPT !.threads[t].pc = "find"]

\* One turn of the loop of the block, or its end.
populate(tr, t) ==
    IF tr.inserted < Len(auth_list)
    THEN LET al == auth_list[tr.inserted + 1] IN
         [tr EXCEPT !.auth_map =
                        [ty \in DOMAIN tr.auth_map \cup {al.auth_type} |->
                            IF ty = al.auth_type THEN al.rgw_error_code
                            ELSE tr.auth_map[ty]],
                    !.inserted = tr.inserted + 1]
    ELSE [tr EXCEPT !.map_init = "done", !.populated = tr.populated + 1,
                    !.threads[t].pc = "find"]

\* auth_map.find(auth_type) and the return statement it leads to.
auth_map_find(tr, t) ==
    LET th == tr.threads[t] IN
    [tr EXCEPT !.threads[t].pc = "returned",
               !.threads[t].result =
                   Some(IF th.auth_type \in DOMAIN tr.auth_map
                        THEN ErrResult(tr.auth_map[th.auth_type], th.message,
                                       "AUTH_ERROR")
                        ELSE IF th.auth_http_status_code = 400
                        THEN ErrResult(Pos("EINVAL"), th.message,
                                       "AUTH_ERROR")
                        ELSE IF th.auth_http_status_code = 404
                        THEN ErrResult(Pos("ERR_NOT_FOUND"), th.message,
                                       "AUTH_ERROR")
                        ELSE ErrResult(Pos("EACCES"), th.message,
                                       "AUTH_ERROR"))]

(***************************************************************************)
(* AuthServiceClient: the verdict for a grpc::Status and response.  The    *)
(* status error_details are "empty", "undecodable", or a decoded           *)
(* google.rpc.Status whose details are a sequence of Any messages.         *)
(***************************************************************************)
RECURSIVE FirstS3ErrorDetails(_)
FirstS3ErrorDetails(details) ==
    IF details = << >> THEN Nothing
    ELSE IF Head(details).is_s3 THEN Some(Head(details))
    ELSE FirstS3ErrorDetails(Tail(details))

Auth(status, resp) ==
    IF status.ok THEN OkResult(resp.user_id, status.error_message)
    ELSE IF status.error_details = "empty"
    THEN ErrResult(Neg("EACCES"), status.error_message, "TRANSPORT_ERROR")
    ELSE IF status.error_details = "undecodable"
    THEN ErrResult(Neg("EACCES"),
                   "failed to deserialize gRPC error_details, error message follows: "
                       \o status.error_message,
                   "INTERNAL_ERROR")
    ELSE LET s3_details == FirstS3ErrorDetails(status.details)
         IN  IF HasValue(s3_details)
             THEN _translate_authenticator_error_code(
                      Value(s3_details).type,
                      Value(s3_details).http_status_code,
                      status.error_message)
             ELSE ErrResult(Neg("EACCES"),
                            "S3ErrorDetails not found, error message follows: "
                                \o status.error_message,
                            "TRANSPORT_ERROR")

\* GetSigningKeyResult: ok() and the key copied from the response.
GetSigningKey(status, resp) ==
    IF status.ok
    THEN [success_ |-> TRUE, signing_key_ |-> resp.signing_key,
          error_message_ |-> ""]
    ELSE [success_ |-> FALSE, signing_key_ |-> << >>,
          error_message_ |-> status.error_message]

(***************************************************************************)
(* StoreQuery: the x-rgw-storequery header parser.  A header is a sequence *)
(* of bytes, each written as the one-character string of its printable    *)
(* character or as the name of a byte that has none: "BEL" (7), "LF" (10), *)
(* "US" (31), "GRAVE" (96), "DEL" (127), "0x80" (128), "0xFF" (255).       *)
(***************************************************************************)
RGWSQMaxHeaderLength == 2048

Printable ==
    <<" ", "!", "\"", "#", "$", "%", "&", "'", "(", ")", "*", "+", ",", "-",
      ".", "/", "0", "1", "2", "3", "4", "5", "6", "7", "8", "9", ":", ";",
      "<", "=", ">", "?", "@", "A", "B", "C", "D", "E", "F", "G", "H", "I",
      "J", "K", "L", "M", "N", "O", "P", "Q", "R", "S", "T", "U", "V", "W",
      "X", "Y", "Z", "[", "\\", "]", "^", "_", "GRAVE", "a", "b", "c", "d", "e",
      "f", "g", "h", "i", "j", "k", "l", "m", "n", "o", "p", "q", "r", "s",
      "t", "u", "v", "w", "x", "y", "z", "{", "|", "}", "~">>
Unprintable ==
    "BEL" :> 7 @@ "LF" :> 10 @@ "US" :> 31 @@ "DEL" :> 127 @@ "0x80" :> 128
    @@ "0xFF" :> 255

\* The value of a byte as an unsigned char.
Code(c) ==
    IF c \in DOMAIN Unprintable THEN Unprintable[c]
    ELSE 31 + (CHOOSE i \in 1..Len(Printable) : Printable[i] = c)

\* The value of a byte as a char: whether char is signed is a property of
\* the build.
as_char(c, char_signed) ==
    IF char_signed /\ Code(c) >= 128 THEN Code(c) - 256 ELSE Code(c)

\* The predicate of std::all_of in tokenize: c >= ' '.
LegalChar(c, char_signed) == as_char(c, char_signed) >= Code(" ")

\* Variant: a header of the maximum length is too long.
TooLongInclusive(input) == Len(input) >= RGWSQMaxHeaderLength

TooLong(input) == Len(input) > RGWSQMaxHeaderLength

\* boost::escaped_list_separator<char>("\\", " ", "\""): the state of the
\* split of the input into fields, and its step for one character.  error
\* is the what() of the boost::escaped_list_error thrown, "" for none.
ElsStart ==
    [tokens |-> << >>, tok |-> << >>, bInQuote |-> FALSE, escape |-> FALSE,
     error |-> ""]

\* Variant: a quote character is kept in the token.
els_step_keep_quotes(st, c) ==
    IF st.error # "" THEN st
    ELSE IF st.escape
    THEN IF c = "n"
         THEN [st EXCEPT !.tok = Append(@, "LF"), !.escape = FALSE]
         ELSE IF c \in {"\"", " ", "\\"}
         THEN [st EXCEPT !.tok = Append(@, c), !.escape = FALSE]
         ELSE [st EXCEPT !.error = "unknown escape sequence"]
    ELSE IF c = "\\" THEN [st EXCEPT !.escape = TRUE]
    ELSE IF c = " " /\ ~st.bInQuote
    THEN [st EXCEPT !.tokens = Append(@, st.tok), !.tok = << >>]
    ELSE IF c = "\""
    THEN [st EXCEPT !.bInQuote = ~@, !.tok = Append(@, c)]
    ELSE [st EXCEPT !.tok = Append(@, c)]

els_step(st, c) ==
    IF st.error # "" THEN st
    ELSE IF st.escape
    THEN IF c = "n"
         THEN [st EXCEPT !.tok = Append(@, "LF"), !.escape = FALSE]
         ELSE IF c \in {"\"", " ", "\\"}
         THEN [st EXCEPT !.tok = Append(@, c), !.escape = FALSE]
         ELSE [st EXCEPT !.error = "unknown escape sequence"]
    ELSE IF c = "\\" THEN [st EXCEPT !.escape = TRUE]
    ELSE IF c = " " /\ ~st.bInQuote
    THEN [st EXCEPT !.tokens = Append(@, st.tok), !.tok = << >>]
    ELSE IF c = "\"" THEN [st EXCEPT !.bInQuote = ~@]
    ELSE [st EXCEPT !.tok = Append(@, c)]

\* The steps for input[lo..hi], in order, up to the first that throws.
RECURSIVE els_run(_, _, _, _)
els_run(st, input, lo, hi) ==
    IF st.error # "" \/ lo > hi THEN st
    ELSE IF lo = hi THEN els_step(st, input[lo])
    ELSE LET mid == (lo + hi) \div 2
         IN  els_run(els_run(st, input, lo, mid), input, mid + 1, hi)

\* The fields of a non-empty input: the tokens the iteration yields before
\* it ends or throws, and the error it throws.
escaped_list(input) ==
    LET st == els_run(ElsStart, input, 1, Len(input))
    IN  IF st.error # "" THEN [tokens |-> st.tokens, error |-> st.error]
        ELSE IF st.escape
        THEN [tokens |-> st.tokens, error |-> "cannot end with escape"]
        ELSE [tokens |-> Append(st.tokens, st.tok), error |-> ""]

\* RGWSQHeaderParser: the fields of a parser, an op, and reset().
NullOp == Nothing
PingOp(request_id) ==
    Some([name |-> "storequery_ping", request_id_ |-> request_id])
ObjectStatusOp ==
    Some([name |-> "storequery_objectstatus", request_id_ |-> << >>])
reset == [op_ |-> NullOp, command_ |-> << >>, param_ |-> << >>]

NoException == Nothing
escaped_list_error(what) ==
    Some([type |-> "boost::escaped_list_error", what |-> what])
ThrownInt(code) == Some([type |-> "int", what |-> code])

\* tokenize: the value returned, the exception that leaves it, the message
\* it logs at level 0, and the parser afterwards.
tokenize(p, input, char_signed) ==
    IF input = << >>
    THEN [ret |-> FALSE, thrown |-> NoException,
          log |-> "illegal empty x-rgw-storequery header", parser |-> p]
    ELSE IF TooLong(input)
    THEN [ret |-> FALSE, thrown |-> NoException,
          log |-> "x-rgw-storequery header exceeds maximum length of 2048 chars",
          parser |-> p]
    ELSE IF ~(\A i \in 1..Len(input) : LegalChar(input[i], char_signed))
    THEN [ret |-> FALSE, thrown |-> NoException,
          log |-> "Illegal character found in x-rgw-storequery",
          parser |-> p]
    ELSE LET tok == escaped_list(input)
             q == [p EXCEPT
                     !.command_ = IF tok.tokens = << >> THEN @
                                  ELSE to_lower(Head(tok.tokens)),
                     !.param_ = IF tok.tokens = << >> THEN @
                                ELSE @ \o Tail(tok.tokens)]
         IN  [ret |-> tok.error = "",
              thrown |-> IF tok.error = "" THEN NoException
                         ELSE escaped_list_error(tok.error),
              log |-> "", parser |-> q]

\* Variant: objectstatus is accepted in every handler context.
CommandOpAnyContext(command, param, handler_type) ==
    IF command = <<"o","b","j","e","c","t","s","t","a","t","u","s">>
    THEN IF Len(param) # 0 THEN NullOp ELSE ObjectStatusOp
    ELSE IF command = <<"p","i","n","g">>
    THEN IF Len(param) # 1 THEN NullOp ELSE PingOp(param[1])
    ELSE NullOp

\* parse after tokenize: the op of the command, NullOp where parse returns
\* false.
CommandOp(command, param, handler_type) ==
    IF command = << >> THEN NullOp
    ELSE IF command = <<"o","b","j","e","c","t","s","t","a","t","u","s">>
    THEN IF handler_type # "Obj" THEN NullOp
         ELSE IF Len(param) # 0 THEN NullOp
         ELSE ObjectStatusOp
    ELSE IF command = <<"p","i","n","g">>
    THEN IF Len(param) # 1 THEN NullOp ELSE PingOp(param[1])
    ELSE NullOp

parse(p, input, handler_type, char_signed) ==
    LET p0 == [p EXCEPT !.op_ = NullOp]
        t == tokenize(p0, input, char_signed)
        op == CommandOp(t.parser.command_, t.parser.param_, handler_type)
    IN  IF HasValue(t.thrown) \/ ~t.ret THEN t
        ELSE [ret |-> HasValue(op), thrown |-> NoException, log |-> "",
              parser |-> [t.parser EXCEPT !.op_ = op]]

\* RGWHandler_REST_StoreQuery_S3::op_get: hdr is the value of
\* HTTP_X_RGW_STOREQUERY in the environment, if it has one.
op_get(hdr, handler_type, char_signed) ==
    IF ~HasValue(hdr) THEN [ret |-> NullOp, thrown |-> NoException]
    ELSE LET r == parse(reset, Value(hdr), handler_type, char_signed)
         IN  IF HasValue(r.thrown) THEN [ret |-> NullOp, thrown |-> r.thrown]
             ELSE IF ~r.ret
             THEN [ret |-> NullOp,
                   thrown |-> ThrownInt(Neg("ERR_INTERNAL_ERROR"))]
             ELSE [ret |-> r.parser.op_, thrown |-> NoException]

(***************************************************************************)
(* RGWStoreQueryOp_ObjectStatus (rgw_rest_storequery.cc).  The op is a     *)
(* record of its fields, of the cursors of its two queries, of the results *)
(* the store returned to it and of the response it sent.  A result of      *)
(* bucket->list is [ret, objs], one of list_multiparts is [ret, uploads];  *)
(* an entry of objs is [name, current, delete_marker, size], an upload is  *)
(* [key, upload_id].  A cursor is the number of entries the store has      *)
(* returned so far.  Sizes of stored objects are far below 2^63, so the    *)
(* cast of object_size_ to int64_t keeps them.                             *)
(***************************************************************************)
version_query_max == 100
mp_query_max == 100

\* The op as op_get creates it, with new RGWStoreQueryOp_ObjectStatus():
\* the class has no constructor of its own, so the fields without an
\* initializer are zeroed.
RGWStoreQueryOp_ObjectStatus ==
    [pc |-> "new", bucket_name_ |-> << >>, object_key_name_ |-> "",
     version_id_ |-> "", object_size_ |-> 0, object_deleted_ |-> FALSE,
     object_mpuploading_ |-> FALSE, object_mpupload_id_ |-> "",
     op_ret |-> NoCode, marker |-> 0, mp_marker |-> 0,
     lists |-> << >>, multiparts |-> << >>, response |-> Nothing]

\* rgw_make_bucket_entry_name: "tenant/bucket", or the bucket name alone
\* for the empty tenant.
rgw_make_bucket_entry_name(tenant, bucket) ==
    IF tenant = << >> THEN bucket ELSE tenant \o <<"/">> \o bucket

\* The start of execute(): the names of the request, op_ret = 0, and the
\* first query about to be issued.
execute(op, bucket_tenant, bucket_name, key) ==
    [op EXCEPT !.bucket_name_ =
                   rgw_make_bucket_entry_name(bucket_tenant, bucket_name),
               !.object_key_name_ = key,
               !.op_ret = NoCode,
               !.pc = "simple"]

First(hits) == IF hits = {} THEN 0 ELSE CHOOSE n \in hits : \A m \in hits : n <= m

\* A variant of the scan of a page that takes the first entry with the
\* key, current or not.
exact_match(objs, key) ==
    First({n \in 1..Len(objs) : objs[n].name = key})

Last(hits) == IF hits = {} THEN 0 ELSE CHOOSE n \in hits : \A m \in hits : n >= m

\* A variant of the scan of a page that goes on to the last current entry
\* with the key.
exact_current_last(objs, key) ==
    Last({n \in 1..Len(objs) : objs[n].name = key /\ objs[n].current})

\* The for loop of execute_simple_query: the index of the first entry of
\* the page with exactly the key that is the current version, 0 if none.
exact_current(objs, key) ==
    First({n \in 1..Len(objs) : objs[n].name = key /\ objs[n].current})

\* A variant of execute_simple_query in which execute() tests only what
\* the query returned, not op_ret.
execute_simple_query_unchecked(op, res) ==
    LET o1 == [op EXCEPT !.lists = Append(@, res),
                         !.marker = @ + Len(res.objs)]
        n == exact_current(res.objs, op.object_key_name_)
    IN  IF res.ret.sign < 0
        THEN [o1 EXCEPT !.op_ret = res.ret, !.pc = "mpupload"]
        ELSE IF res.objs = << >> THEN [o1 EXCEPT !.pc = "mpupload"]
        ELSE IF n = 0 THEN o1
        ELSE [o1 EXCEPT !.object_deleted_ = res.objs[n].delete_marker,
                        !.object_size_ = IF res.objs[n].delete_marker THEN @
                                         ELSE res.objs[n].size,
                        !.op_ret = NoCode,
                        !.pc = "executed"]

\* A variant of execute_simple_query whose listing parameters are built
\* anew for every page, so that the cursor never leaves the start.
execute_simple_query_same_page(op, res) ==
    LET o1 == [op EXCEPT !.lists = Append(@, res)]
        n == exact_current(res.objs, op.object_key_name_)
    IN  IF res.ret.sign < 0
        THEN [o1 EXCEPT !.op_ret = res.ret, !.pc = "executed"]
        ELSE IF res.objs = << >> THEN [o1 EXCEPT !.pc = "mpupload"]
        ELSE IF n = 0 THEN o1
        ELSE [o1 EXCEPT !.object_deleted_ = res.objs[n].delete_marker,
                        !.object_size_ = IF res.objs[n].delete_marker THEN @
                                         ELSE res.objs[n].size,
                        !.op_ret = NoCode,
                        !.pc = "executed"]

\* One turn of the loop of execute_simple_query on the result res of
\* bucket->list, and, when the loop ends, what execute() does with its
\* return: a failure ends execute() with op_ret = ret, an empty page sends
\* it to the multipart query, a current entry with the key ends it found,
\* and any other page asks for the next one.
execute_simple_query(op, res) ==
    LET o1 == [op EXCEPT !.lists = Append(@, res),
                         !.marker = @ + Len(res.objs)]
        n == exact_current(res.objs, op.object_key_name_)
    IN  IF res.ret.sign < 0
        THEN [o1 EXCEPT !.op_ret = res.ret, !.pc = "executed"]
        ELSE IF res.objs = << >> THEN [o1 EXCEPT !.pc = "mpupload"]
        ELSE IF n = 0 THEN o1
        ELSE [o1 EXCEPT !.object_deleted_ = res.objs[n].delete_marker,
                        !.object_size_ = IF res.objs[n].delete_marker THEN @
                                         ELSE res.objs[n].size,
                        !.op_ret = NoCode,
                        !.pc = "executed"]

\* A variant of the scan of a page of uploads that takes the first upload
\* of the page, which has the key as a prefix.
prefix_upload(uploads, key) ==
    First({n \in 1..Len(uploads) : TRUE})

\* The for loop of execute_mpupload_query: the index of the first upload
\* of the page with exactly the key, 0 if none.
exact_upload(uploads, key) ==
    First({n \in 1..Len(uploads) : uploads[n].key = key})

\* One turn of the loop of execute_mpupload_query on the result res of
\* list_multiparts, and what execute() does when the loop ends: a failure
\* ends it with op_ret = ret, an empty page with -ENOENT, an upload with
\* the key ends it found.
execute_mpupload_query(op, res) ==
    LET o1 == [op EXCEPT !.multiparts = Append(@, res),
                         !.mp_marker = @ + Len(res.uploads)]
        n == exact_upload(res.uploads, op.object_key_name_)
    IN  IF res.ret.sign < 0
        THEN [o1 EXCEPT !.op_ret = res.ret, !.pc = "executed"]
        ELSE IF res.uploads = << >>
        THEN [o1 EXCEPT !.op_ret = Neg("ENOENT"), !.pc = "executed"]
        ELSE IF n = 0 THEN o1
        ELSE [o1 EXCEPT !.object_mpuploading_ = TRUE,
                        !.object_mpupload_id_ = res.uploads[n].upload_id,
                        !.op_ret = NoCode,
                        !.pc = "executed"]

\* send_response_json: the fields of the Object section, in the order
\* they are dumped.
send_response_json(op) ==
    << <<"bucket", op.bucket_name_>>, <<"key", op.object_key_name_>>,
       <<"deleted", op.object_deleted_>>,
       <<"multipart_upload_in_progress", op.object_mpuploading_>> >>
    \o (IF op.object_mpuploading_
        THEN << <<"multipart_upload_id", op.object_mpupload_id_>> >>
        ELSE << >>)
    \o (IF ~op.object_deleted_ /\ ~op.object_mpuploading_
        THEN << <<"version_id", op.version_id_>>,
                <<"size", op.object_size_>> >>
        ELSE << >>)

\* RGWStoreQueryOp_Base::send_response: the status of the request is
\* op_ret when that is not 0, and the body is the JSON document.
send_response(op) ==
    [op EXCEPT !.response = Some([status |-> op.op_ret,
                                  content_type |-> "application/json",
                                  json |-> send_response_json(op)]),
               !.pc = "sent"]

(***************************************************************************)
(* GRPCTestServer (test_rgw_grpc_util.h): the server object, the thread    *)
(* that start() creates, and the test thread that calls start() and        *)
(* stop() one after the other.  server_thread_ is "none" when the          *)
(* std::thread is not joinable, else the place its function has reached:   *)
(* "building", "waiting" (in server_->Wait()) or "returned".  caller is    *)
(* the place of the test thread, calls the calls it has made.  Assigning   *)
(* to a std::thread that is joinable calls std::terminate.                 *)
(***************************************************************************)
GRPCTestServer ==
    [initialising |-> FALSE, running |-> FALSE, server_ |-> FALSE,
     shutdown |-> FALSE, server_thread_ |-> "none", caller |-> "idle",
     calls |-> << >>]

\* start() up to its wait loop.
start(srv) ==
    LET called == [srv EXCEPT !.calls = Append(@, "start")]
    IN  IF srv.initialising \/ srv.running THEN called
        ELSE IF srv.server_thread_ # "none"
        THEN [called EXCEPT !.initialising = TRUE, !.caller = "terminated"]
        ELSE [called EXCEPT !.initialising = TRUE,
                            !.server_thread_ = "building",
                            !.caller = "start"]

\* The thread function up to server_->Wait(), or to its return when
\* BuildAndStart() gave no server.
server_thread_build(srv, built) ==
    IF built
    THEN [srv EXCEPT !.server_ = TRUE, !.running = TRUE,
                     !.initialising = FALSE, !.shutdown = FALSE,
                     !.server_thread_ = "waiting"]
    ELSE [srv EXCEPT !.server_ = FALSE, !.initialising = FALSE,
                     !.server_thread_ = "returned"]

\* server_->Wait() returns after Shutdown(), and the thread function ends.
server_thread_wait(srv) ==
    [srv EXCEPT !.running = FALSE, !.server_thread_ = "returned"]

\* stop() up to the join: Shutdown() if the server runs.
stop(srv) ==
    [srv EXCEPT !.calls = Append(@, "stop"),
                !.shutdown = @ \/ (srv.running /\ srv.server_),
                !.caller = "stop"]

\* The join of stop(), when the thread is not joinable or has returned.
stop_join(srv) ==
    [srv EXCEPT !.server_thread_ = "none", !.caller = "idle"]

(***************************************************************************)
(* HTTP transport (HandoffHelper::auth of rgw_handoff.cc): the verdict for *)
(* the result of the HTTP call and the response body.  A body is Nothing   *)
(* when it is not JSON, else the JSON object as a map from field name to   *)
(* string.  The verdicts of this transport have no error category.         *)
(***************************************************************************)
HTTP_STATUS_NOSTATUS == 0

HttpOk(userid, message) ==
    [userid_ |-> userid, errorcode_ |-> NoCode, message_ |-> message,
     is_err_ |-> FALSE]
HttpErr(errorcode, message) ==
    [userid_ |-> "", errorcode_ |-> errorcode, message_ |-> message,
     is_err_ |-> TRUE]

ParseHandoffResponse(resp_bl) ==
    IF ~HasValue(resp_bl)
    THEN [success |-> FALSE, uid |-> "notset",
          message |-> "malformed response JSON"]
    ELSE LET json == Value(resp_bl)
         IN  IF "message" \notin DOMAIN json
             THEN [success |-> FALSE, uid |-> "notset", message |-> "none"]
             ELSE IF "uid" \notin DOMAIN json
             THEN [success |-> FALSE, uid |-> "notset",
                   message |-> json["message"]]
             ELSE [success |-> TRUE, uid |-> json["uid"],
                   message |-> json["message"]]

\* fmt::format("Handoff HTTP request failed with code {} ({})", ...) for
\* the results of the model.
RequestFailedMessage(result) ==
    IF result = 0 - 5
    THEN "Handoff HTTP request failed with code -5 (Input/output error)"
    ELSE "Handoff HTTP request failed with code -110 (Connection timed out)"

\* Variant: the HTTP status is mapped before the body is looked at.
HttpVerdictStatusFirst(vres, resp_bl) ==
    LET resp == ParseHandoffResponse(resp_bl)
    IN  IF vres.result < 0
        THEN HttpErr(Neg("EACCES"), RequestFailedMessage(vres.result))
        ELSE IF vres.http_code = 401
        THEN HttpErr(Neg("ERR_SIGNATURE_NO_MATCH"), resp.message)
        ELSE IF vres.http_code = 404
        THEN HttpErr(Neg("ERR_INVALID_ACCESS_KEY"), resp.message)
        ELSE IF vres.http_code = HTTP_STATUS_NOSTATUS
        THEN HttpErr(Neg("EACCES"), resp.message)
        ELSE IF ~resp.success
        THEN HttpErr(Neg("ERR_INTERNAL_ERROR"), resp.message)
        ELSE HttpOk(resp.uid, resp.message)

\* HandoffHelper::auth from the return of the verify function on.  The
\* switch on the status has no default label.
HttpVerdict(vres, resp_bl) ==
    IF vres.result < 0
    THEN HttpErr(Neg("EACCES"), RequestFailedMessage(vres.result))
    ELSE LET resp == ParseHandoffResponse(resp_bl)
         IN  IF ~resp.success
             THEN HttpErr(Neg("ERR_INTERNAL_ERROR"), resp.message)
             ELSE IF vres.http_code = 200
             THEN HttpOk(resp.uid, resp.message)
             ELSE IF vres.http_code = 401
             THEN HttpErr(Neg("ERR_SIGNATURE_NO_MATCH"), resp.message)
             ELSE IF vres.http_code = 404
             THEN HttpErr(Neg("ERR_INVALID_ACCESS_KEY"), resp.message)
             ELSE IF vres.http_code = HTTP_STATUS_NOSTATUS
             THEN HttpErr(Neg("EACCES"), resp.message)
             ELSE HttpOk(resp.uid, resp.message)

(***************************************************************************)
(* Inputs: requests, configurations, Authenticator replies                 *)
(***************************************************************************)
Threads == {"t1", "t2"}

V2Header == AWS_SP \o <<"k", ":", "s">>
V4Header == V4_CREDENTIAL \o <<"k">> \o V4_SIGNEDHEADERS \o <<"h">>
            \o V4_SIGNATURE \o <<"s">>

Date5 == <<"1","9","7","0","0","1","0","1","T","0","0","0","0","0","5","Z">>

NoArgs == << >>
V2Args == ("AWSAccessKeyId" :> <<"k">>) @@ ("Signature" :> <<"s">>)
          @@ ("Expires" :> <<"1", "0">>)
V2ArgsNoSignature == ("AWSAccessKeyId" :> <<"k">>) @@ ("Expires" :> <<"1", "0">>)
V4Args == ("x-amz-credential" :> <<"k">>) @@ ("x-amz-signedheaders" :> <<"h">>)
          @@ ("x-amz-signature" :> <<"s">>) @@ ("x-amz-date" :> Date5)
          @@ ("x-amz-expires" :> <<"5">>)
V4ArgsNoSignature == ("x-amz-credential" :> <<"k">>)
                     @@ ("x-amz-signedheaders" :> <<"h">>)
V2AndV4Args == V2Args @@ V4Args

\* Values of time(nullptr): the last valid second of the presigned
\* requests above and the second after it.
Times == {10, 11}

Env(authorization, content_sha256) ==
    (IF HasValue(authorization)
     THEN HTTP_AUTHORIZATION :> Value(authorization) ELSE << >>)
    @@ (IF HasValue(content_sha256)
        THEN HTTP_X_AMZ_CONTENT_SHA256 :> Value(content_sha256) ELSE << >>)

Request(authorization, content_sha256, args, token, target) ==
    [env |-> Env(authorization, content_sha256),
     args |-> args,
     session_token |-> token,
     method |-> target.method,
     relative_uri |-> target.uri,
     request_uri |-> target.uri,
     trans_id |-> "tx"]

GetBK == [method |-> Some(<<"G","E","T">>), uri |-> <<"/","b","/","k">>]
NoMethod == [method |-> Nothing, uri |-> <<"/","b">>]
EmptyMethod == [method |-> Some(<< >>), uri |-> <<"/","b">>]
BadUri == [method |-> Some(<<"G","E","T">>), uri |-> <<"b","/","k">>]
Targets == {GetBK, NoMethod, EmptyMethod, BadUri}

\* The requests of the sequential engine specification: every header form
\* with every payload declaration, with and without presigned parameters,
\* and the capture cases.
Requests ==
    { Request(a, c, q, << >>, GetBK) :
        a \in {Some(V2Header), Some(V4Header), Some(<<"A","W","S">>)},
        c \in {Nothing, Some(STREAMING_PAYLOAD), Some(to_lower(STREAMING_PAYLOAD))},
        q \in {NoArgs, V2Args, V4Args} }
    \cup
    { Request(Nothing, c, q, << >>, GetBK) :
        c \in {Nothing, Some(STREAMING_PAYLOAD), Some(to_lower(STREAMING_PAYLOAD))},
        q \in {NoArgs, V2Args, V2ArgsNoSignature, V4Args, V4ArgsNoSignature,
               V2AndV4Args} }
    \cup
    { Request(Some(V4Header), c, NoArgs, tok, tg) :
        c \in {Nothing, Some(STREAMING_PAYLOAD)},
        tok \in {<< >>, <<"t">>},
        tg \in Targets }

\* The requests of the concurrent specifications.
CoreRequests ==
    { Request(Some(V4Header), Some(STREAMING_PAYLOAD), NoArgs, <<"t">>, GetBK),
      Request(Nothing, Nothing, V2Args, << >>, GetBK) }

Uris == {"dns:auth-1", "dns:auth-2"}
BackoffValues == {1000, 2000}

BackoffKeys == {"rgw_handoff_grpc_arg_initial_reconnect_backoff_ms",
                "rgw_handoff_grpc_arg_max_reconnect_backoff_ms",
                "rgw_handoff_grpc_arg_min_reconnect_backoff_ms"}
UriKeys == {"rgw_handoff_grpc_uri"}
ChunkedKeys == {"rgw_handoff_enable_chunked_upload"}
SignatureV2Keys == {"rgw_handoff_enable_signature_v2"}
AuthParamKeys == {"rgw_handoff_authparam_always",
                  "rgw_handoff_authparam_withtoken"}
get_tracked_conf_keys ==
    AuthParamKeys \cup ChunkedKeys \cup SignatureV2Keys \cup BackoffKeys
    \cup UriKeys
BootKeys == {"rgw_handoff_enable_presigned_expiry_check"}

ConfValues(k) ==
    IF k \in BackoffKeys THEN BackoffValues
    ELSE IF k \in UriKeys THEN Uris
    ELSE BOOLEAN

\* The configurations (ConfigProxy values) of the model.
Confs ==
    {b @@ u @@ n :
        b \in [AuthParamKeys \cup ChunkedKeys \cup SignatureV2Keys \cup BootKeys
                 -> BOOLEAN],
        u \in [UriKeys -> Uris],
        n \in [BackoffKeys -> BackoffValues]}

AuthStatuses ==
    {[ok |-> TRUE, error_message |-> "", error_details |-> "empty",
      details |-> << >>]}
    \cup {[ok |-> FALSE, error_message |-> "denied", error_details |-> d,
           details |-> << >>] : d \in {"empty", "undecodable"}}
    \cup {[ok |-> FALSE, error_message |-> "denied", error_details |-> "decoded",
           details |-> ds] :
            ds \in {<< >>, <<[is_s3 |-> FALSE]>>}
                   \cup {<<[is_s3 |-> FALSE],
                           [is_s3 |-> TRUE, type |-> ty, http_status_code |-> h]>> :
                           ty \in {"TYPE_SIGNATURE_DOES_NOT_MATCH",
                                   "TYPE_ACCESS_DENIED", "TYPE_UNSPECIFIED"},
                           h \in {400, 403, 404}}}
AuthResponses == {[user_id |-> "testid"]}

SigningKey32 == <<165, 90>>  \* stands for the 32 octets of an HMAC-SHA256
KeyStatuses ==
    {[ok |-> TRUE, error_message |-> ""],
     [ok |-> FALSE, error_message |-> "no key"]}
KeyResponses == {[signing_key |-> SigningKey32], [signing_key |-> << >>]}

\* The replies of the concurrent specification.
CoreAuthStatuses ==
    {st \in AuthStatuses : st.ok \/ st.error_details = "empty"}
CoreKeyResponses == {[signing_key |-> SigningKey32]}

(***************************************************************************)
(* State                                                                   *)
(***************************************************************************)
VARIABLES
    conf,                     \* the process configuration (ConfigProxy)
    changed,                  \* keys of the notification being handled
                              \* whose block of handle_conf_change is
                              \* still to run
    notified,                 \* the argument changed of the running
                              \* handle_conf_change, {} when none runs
    observer_added_,          \* HandoffConfigObserver::observer_added_
    presigned_expiry_check_,
    enable_signature_v2_,
    enable_chunked_upload_,
    authorization_mode_,
    channel_,                 \* optional channel: its URI and arguments
    channel_args_,            \* optional channel arguments
    channel_uri_,
    m_config_,                \* threads holding m_config_ in shared mode
    pc,                       \* per thread: position in auth()
    s,                        \* per thread: the request (req_state)
    auth,                     \* per thread: the Authorization header in use
    synthesized,              \* per thread: auth was built from the query
    authorization_param,      \* per thread: optional AuthorizationParameters
    is_chunked,               \* per thread
    result,                   \* per thread: the result of _grpc_auth()
    ret,                      \* per thread: the verdict auth() returned
    calls,                    \* per thread: the outbound calls of this auth()
                              \* and the status each one returned
    seen,                     \* per thread: the settings and time auth() has read
    entry_channel,            \* per thread: channel_ when auth() was entered
    args_in,                  \* query parameters given to a function under test
    header_out,               \* optional result of synthesize_auth_header
    call_in,                  \* arguments of another function under test
    call_out,                 \* optional result of that function
    objectstatus_op,          \* the RGWStoreQueryOp_ObjectStatus of a request
    test_server,              \* a GRPCTestServer and the test that drives it
    translator                \* the Error Translator's statics and callers

engine_vars == <<presigned_expiry_check_, enable_signature_v2_,
                 enable_chunked_upload_, authorization_mode_, channel_,
                 channel_args_, channel_uri_>>
conf_vars == <<conf, changed, notified, observer_added_>>
thread_vars == <<pc, s, auth, synthesized, authorization_param, is_chunked,
                 result, ret, calls, seen, entry_channel>>
call_vars == <<args_in, header_out, call_in, call_out, objectstatus_op,
               test_server, translator>>
vars == <<conf_vars, engine_vars, m_config_, thread_vars, call_vars>>

NoRequest == Request(Nothing, Nothing, NoArgs, << >>, NoMethod)
NoResult == OkResult("", "")
Unread == [signature_v2 |-> Nothing, authorization_mode |-> Nothing,
           chunked_upload |-> Nothing, expiry_check |-> Nothing,
           now |-> Nothing, snapshot |-> Nothing]

\* The toggles and mode guarded by m_config_.
RuntimeConfig ==
    [signature_v2 |-> enable_signature_v2_,
     chunked_upload |-> enable_chunked_upload_,
     authorization_mode |-> authorization_mode_]

InitThreads ==
    /\ pc = [t \in Threads |-> "idle"]
    /\ s = [t \in Threads |-> NoRequest]
    /\ auth = [t \in Threads |-> << >>]
    /\ synthesized = [t \in Threads |-> FALSE]
    /\ authorization_param = [t \in Threads |-> Nothing]
    /\ is_chunked = [t \in Threads |-> FALSE]
    /\ result = [t \in Threads |-> NoResult]
    /\ ret = [t \in Threads |-> NoResult]
    /\ calls = [t \in Threads |-> << >>]
    /\ seen = [t \in Threads |-> Unread]
    /\ entry_channel = [t \in Threads |-> Nothing]

\* No function is under test.
InitCalls ==
    /\ args_in = NoArgs
    /\ header_out = Nothing
    /\ call_in = << >>
    /\ call_out = Nothing
    /\ objectstatus_op = NullOp
    /\ test_server = GRPCTestServer
    /\ translator = ErrorTranslator

\* HandoffHelperImpl after construction, before init().
InitEngine ==
    /\ changed = {}
    /\ notified = {}
    /\ observer_added_ = FALSE
    /\ presigned_expiry_check_ = FALSE
    /\ enable_signature_v2_ = TRUE
    /\ enable_chunked_upload_ = TRUE
    /\ authorization_mode_ = "ALWAYS"
    /\ channel_ = Nothing
    /\ channel_args_ = Nothing
    /\ channel_uri_ = ""
    /\ m_config_ = {}

(***************************************************************************)
(* Runtime Config Observer and the setters it calls                        *)
(***************************************************************************)
\* Variant: the WITHTOKEN key takes precedence over the ALWAYS key.
get_authorization_mode_withtoken_first(c) ==
    IF c["rgw_handoff_authparam_withtoken"] THEN "WITHTOKEN"
    ELSE IF c["rgw_handoff_authparam_always"] THEN "ALWAYS"
    ELSE "NEVER"

get_authorization_mode(c) ==
    IF c["rgw_handoff_authparam_always"] THEN "ALWAYS"
    ELSE IF c["rgw_handoff_authparam_withtoken"] THEN "WITHTOKEN"
    ELSE "NEVER"

\* grpc::ChannelArguments: the integer arguments that were set.
get_default_channel_args(c) ==
    LET args ==
          ("GRPC_ARG_INITIAL_RECONNECT_BACKOFF_MS" :>
               c["rgw_handoff_grpc_arg_initial_reconnect_backoff_ms"])
          @@ ("GRPC_ARG_MAX_RECONNECT_BACKOFF_MS" :>
               c["rgw_handoff_grpc_arg_max_reconnect_backoff_ms"])
          @@ ("GRPC_ARG_MIN_RECONNECT_BACKOFF_MS" :>
               c["rgw_handoff_grpc_arg_min_reconnect_backoff_ms"])
    IN  << >>   \* the function returns grpc::ChannelArguments(), not args

\* std::unique_lock on m_config_: no thread holds it in shared mode.
\* Variant: a setter that commits without the unique lock on m_config_.
UniqueLockConfigSkipped == TRUE

UniqueLockConfig == m_config_ = {}

\* The effect of set_channel_uri on <<channel_, channel_args_, channel_uri_>>;
\* created is whether grpc::CreateCustomChannel returned a channel.
set_channel_uri(c, new_uri, created) ==
    LET args == IF HasValue(channel_args_) THEN Value(channel_args_)
                ELSE get_default_channel_args(c)
    IN  /\ channel_args_' = Some(args)
        /\ IF created
           THEN /\ channel_' = Some([uri |-> new_uri, args |-> args])
                /\ channel_uri_' = new_uri
           ELSE UNCHANGED <<channel_, channel_uri_>>

set_signature_v2(enabled) ==
    /\ UniqueLockConfig
    /\ enable_signature_v2_' = enabled

set_chunked_upload_mode(enabled) ==
    /\ UniqueLockConfig
    /\ enable_chunked_upload_' = enabled

set_authorization_mode(mode) ==
    /\ UniqueLockConfig
    /\ authorization_mode_' = mode

\* HandoffHelperImpl::init.  A failure to create the channel throws after
\* the observer was registered and before any other field is set.  outcomes
\* are the possible results of grpc::CreateCustomChannel (TRUE: a channel).
init(outcomes) ==
    /\ ~observer_added_
    /\ observer_added_' = TRUE
    /\ \E created \in outcomes :
          /\ set_channel_uri(conf, conf["rgw_handoff_grpc_uri"], created)
          /\ IF created
             THEN /\ presigned_expiry_check_' =
                         conf["rgw_handoff_enable_presigned_expiry_check"]
                  /\ set_signature_v2(conf["rgw_handoff_enable_signature_v2"])
                  /\ set_chunked_upload_mode(
                         conf["rgw_handoff_enable_chunked_upload"])
                  /\ set_authorization_mode(get_authorization_mode(conf))
             ELSE UNCHANGED <<presigned_expiry_check_, enable_signature_v2_,
                              enable_chunked_upload_, authorization_mode_>>
    /\ UNCHANGED <<call_vars, conf, changed, notified, m_config_,
                   thread_vars>>

\* The configuration changes and the observer is notified of the keys that
\* changed, all of them among keys.
ConfChange(keys) ==
    /\ observer_added_
    /\ changed = {}
    /\ \E diff \in (SUBSET keys) \ {{}} :
       \E v \in [diff -> UNION {ConfValues(k) : k \in diff}] :
          /\ \A k \in diff : v[k] \in ConfValues(k) \ {conf[k]}
          /\ conf' = [k \in DOMAIN conf |-> IF k \in diff THEN v[k] ELSE conf[k]]
          /\ changed' = diff
          /\ notified' = diff
    /\ UNCHANGED <<call_vars, observer_added_, engine_vars, m_config_, thread_vars>>

\* The block of handle_conf_change for keys has run; the handler returns
\* after its last block.
Handled(keys) ==
    /\ changed' = changed \ keys
    /\ notified' = IF changed \ keys = {} THEN {} ELSE notified

\* handle_conf_change, one block per action, in the order of the source.
HandleBackoff ==
    /\ changed \cap BackoffKeys # {}
    /\ channel_args_' = Some(get_default_channel_args(conf))
    /\ Handled(BackoffKeys)
    /\ UNCHANGED <<call_vars, conf, observer_added_, presigned_expiry_check_,
                   enable_signature_v2_, enable_chunked_upload_,
                   authorization_mode_, channel_, channel_uri_, m_config_,
                   thread_vars>>

\* Variant: the block for rgw_handoff_grpc_uri does not wait for the block
\* of the channel arguments.
HandleUriFirst(outcomes) ==
    /\ changed \cap UriKeys # {}
    /\ \E created \in outcomes :
          set_channel_uri(conf, conf["rgw_handoff_grpc_uri"], created)
    /\ Handled(UriKeys)
    /\ UNCHANGED <<call_vars, conf, observer_added_, presigned_expiry_check_,
                   enable_signature_v2_, enable_chunked_upload_,
                   authorization_mode_, m_config_, thread_vars>>

HandleUri(outcomes) ==
    /\ changed \cap BackoffKeys = {}
    /\ changed \cap UriKeys # {}
    /\ \E created \in outcomes :
          set_channel_uri(conf, conf["rgw_handoff_grpc_uri"], created)
    /\ Handled(UriKeys)
    /\ UNCHANGED <<call_vars, conf, observer_added_, presigned_expiry_check_,
                   enable_signature_v2_, enable_chunked_upload_,
                   authorization_mode_, m_config_, thread_vars>>

HandleChunked ==
    /\ changed \cap (BackoffKeys \cup UriKeys) = {}
    /\ changed \cap ChunkedKeys # {}
    /\ set_chunked_upload_mode(conf["rgw_handoff_enable_chunked_upload"])
    /\ Handled(ChunkedKeys)
    /\ UNCHANGED <<call_vars, conf, observer_added_, presigned_expiry_check_,
                   enable_signature_v2_, authorization_mode_, channel_,
                   channel_args_, channel_uri_, m_config_, thread_vars>>

HandleSignatureV2 ==
    /\ changed \cap (BackoffKeys \cup UriKeys \cup ChunkedKeys) = {}
    /\ changed \cap SignatureV2Keys # {}
    /\ set_signature_v2(conf["rgw_handoff_enable_signature_v2"])
    /\ Handled(SignatureV2Keys)
    /\ UNCHANGED <<call_vars, conf, observer_added_, presigned_expiry_check_,
                   enable_chunked_upload_, authorization_mode_, channel_,
                   channel_args_, channel_uri_, m_config_, thread_vars>>

HandleAuthParam ==
    /\ changed \cap (BackoffKeys \cup UriKeys \cup ChunkedKeys
                     \cup SignatureV2Keys) = {}
    /\ changed \cap AuthParamKeys # {}
    /\ set_authorization_mode(get_authorization_mode(conf))
    /\ Handled(AuthParamKeys)
    /\ UNCHANGED <<call_vars, conf, observer_added_, presigned_expiry_check_,
                   enable_signature_v2_, enable_chunked_upload_, channel_,
                   channel_args_, channel_uri_, m_config_, thread_vars>>

(***************************************************************************)
(* Handoff Engine: HandoffHelperImpl::auth, one action per stretch of the  *)
(* method between two points where another thread can be observed.         *)
(***************************************************************************)
AccessDenied(message) == ErrResult(Neg("EACCES"), message, "AUTH_ERROR")

\* return from auth(): the shared lock g goes out of scope.
Return(t, verdict) ==
    /\ ret' = [ret EXCEPT ![t] = verdict]
    /\ pc' = [pc EXCEPT ![t] = "done"]
    /\ m_config_' = m_config_ \ {t}

\* The entry of auth() up to and including the shared lock on m_config_.
AuthBegin(t, req) ==
    /\ pc[t] = "idle"
    /\ pc' = [pc EXCEPT ![t] = "locked"]
    /\ s' = [s EXCEPT ![t] = req]
    /\ m_config_' = m_config_ \cup {t}
    /\ entry_channel' = [entry_channel EXCEPT ![t] = channel_]
    /\ UNCHANGED <<call_vars, conf_vars, engine_vars, auth, synthesized,
                   authorization_param, is_chunked, result, ret, calls, seen>>

\* The Authorization header: taken from the environment or synthesized,
\* the presigned expiry check, the signature v2 toggle.
\* Variant: a failed synthesis is used as an empty header.
NormalizedHeaderUnchecked(req) ==
    IF HTTP_AUTHORIZATION \in DOMAIN req.env
    THEN Some(req.env[HTTP_AUTHORIZATION])
    ELSE LET synth == synthesize_auth_header(req.args)
         IN  IF HasValue(synth) THEN synth ELSE Some(<< >>)

\* Variant: presigned query parameters take precedence over the header.
NormalizedHeaderPreferQuery(req) ==
    LET synth == synthesize_auth_header(req.args)
    IN  IF HasValue(synth) THEN synth
        ELSE IF HTTP_AUTHORIZATION \in DOMAIN req.env
        THEN Some(req.env[HTTP_AUTHORIZATION])
        ELSE Nothing

NormalizedHeader(req) ==
    IF HTTP_AUTHORIZATION \in DOMAIN req.env
    THEN Some(req.env[HTTP_AUTHORIZATION])
    ELSE synthesize_auth_header(req.args)

IsSynthesized(req) == HTTP_AUTHORIZATION \notin DOMAIN req.env

\* Variant: the expiry check is applied to inbound headers as well.
ExpiryCheckFailsAnyHeader(req, now) ==
    /\ presigned_expiry_check_
    /\ ~valid_presigned_time(req.args, now)

ExpiryCheckFails(req, now) ==
    /\ IsSynthesized(req)
    /\ presigned_expiry_check_
    /\ ~valid_presigned_time(req.args, now)

\* Variant: the prefix test omits the blank after AWS.
SignatureV2RejectedLoosePrefix(header) ==
    /\ ~enable_signature_v2_
    /\ starts_with(header, <<"A", "W", "S">>)

SignatureV2Rejected(header) ==
    /\ ~enable_signature_v2_
    /\ starts_with(header, AWS_SP)

AuthHeader(t) ==
    /\ pc[t] = "locked"
    /\ \E now \in Times :
        LET maybe_auth == NormalizedHeader(s[t])
        IN  IF ~HasValue(maybe_auth)
            THEN /\ Return(t, AccessDenied(
                        "Internal error (missing Authorization and insufficient query parameters)"))
                 /\ UNCHANGED <<auth, synthesized, seen>>
            ELSE IF ExpiryCheckFails(s[t], now)
            THEN /\ Return(t, AccessDenied("Presigned URL expiry check failed"))
                 /\ seen' = [seen EXCEPT
                               ![t].expiry_check = Some(TRUE),
                               ![t].now = Some(now)]
                 /\ UNCHANGED <<auth, synthesized>>
            ELSE /\ seen' = [seen EXCEPT
                               ![t].expiry_check =
                                   IF IsSynthesized(s[t])
                                   THEN Some(presigned_expiry_check_)
                                   ELSE Nothing,
                               ![t].now =
                                   IF IsSynthesized(s[t])
                                      /\ presigned_expiry_check_
                                   THEN Some(now) ELSE Nothing,
                               ![t].signature_v2 = Some(enable_signature_v2_)]
                 /\ IF SignatureV2Rejected(Value(maybe_auth))
                    THEN /\ Return(t, AccessDenied(
                                "Access denied (V2 signatures disabled)"))
                         /\ UNCHANGED <<auth, synthesized>>
                    ELSE /\ auth' = [auth EXCEPT ![t] = Value(maybe_auth)]
                         /\ synthesized' =
                                [synthesized EXCEPT ![t] = IsSynthesized(s[t])]
                         /\ pc' = [pc EXCEPT ![t] = "prepare"]
                         /\ UNCHANGED <<m_config_, ret>>
    /\ UNCHANGED <<call_vars, conf_vars, engine_vars, s, authorization_param,
                   is_chunked, result, calls, entry_channel>>

\* The capture policy, the chunked upload detection and its toggle.
\* Variant: a session token is required in every mode but NEVER.
CapturePolicyTokenOnly(mode, session_token) ==
    mode # "NEVER" /\ session_token # << >>

CapturePolicy(mode, session_token) ==
    mode = "ALWAYS" \/ (mode = "WITHTOKEN" /\ session_token # << >>)

\* The AuthorizationParameters object auth() constructs, if it does.
Snapshot(req) ==
    IF CapturePolicy(authorization_mode_, req.session_token)
    THEN Some(AuthorizationParameters(req))
    ELSE Nothing

\* Variant: an invalid snapshot is passed on to _grpc_auth.
CaptureKeepInvalid(req) == Snapshot(req)

\* authorization_param as auth() passes it to _grpc_auth.
Capture(req) ==
    LET p == Snapshot(req)
    IN  IF HasValue(p) /\ Value(p).valid_ THEN p ELSE Nothing

\* Variant: the payload marker is compared without regard to case.
IsChunkedAnyCase(req) ==
    /\ HTTP_X_AMZ_CONTENT_SHA256 \in DOMAIN req.env
    /\ to_lower(req.env[HTTP_X_AMZ_CONTENT_SHA256]) = to_lower(STREAMING_PAYLOAD)

IsChunked(req) ==
    /\ HTTP_X_AMZ_CONTENT_SHA256 \in DOMAIN req.env
    /\ req.env[HTTP_X_AMZ_CONTENT_SHA256] = STREAMING_PAYLOAD

ChunkedRejected(chunked) == chunked /\ ~enable_chunked_upload_

\* Variant: auth() sets the capture mode itself, taking m_config_ in
\* exclusive mode while it holds it in shared mode.
AuthPrepareSetsMode(t) ==
    /\ pc[t] = "prepare"
    /\ set_authorization_mode(authorization_mode_)
    /\ authorization_param' = [authorization_param EXCEPT ![t] = Capture(s[t])]
    /\ is_chunked' = [is_chunked EXCEPT ![t] = IsChunked(s[t])]
    /\ seen' = [seen EXCEPT
                  ![t].authorization_mode = Some(authorization_mode_),
                  ![t].snapshot = Snapshot(s[t]),
                  ![t].chunked_upload =
                      IF IsChunked(s[t]) THEN Some(enable_chunked_upload_)
                      ELSE Nothing]
    /\ pc' = [pc EXCEPT ![t] = "grpc_auth"]
    /\ UNCHANGED <<m_config_, ret>>
    /\ UNCHANGED <<call_vars, conf_vars, presigned_expiry_check_,
                   enable_signature_v2_, enable_chunked_upload_, channel_,
                   channel_args_, channel_uri_, s, auth, synthesized,
                   result, calls, entry_channel>>

AuthPrepare(t) ==
    /\ pc[t] = "prepare"
    /\ authorization_param' = [authorization_param EXCEPT ![t] = Capture(s[t])]
    /\ is_chunked' = [is_chunked EXCEPT ![t] = IsChunked(s[t])]
    /\ seen' = [seen EXCEPT
                  ![t].authorization_mode = Some(authorization_mode_),
                  ![t].snapshot = Snapshot(s[t]),
                  ![t].chunked_upload =
                      IF IsChunked(s[t]) THEN Some(enable_chunked_upload_)
                      ELSE Nothing]
    /\ IF ChunkedRejected(IsChunked(s[t]))
       THEN Return(t, AccessDenied("chunked upload is disabled"))
       ELSE /\ pc' = [pc EXCEPT ![t] = "grpc_auth"]
            /\ UNCHANGED <<m_config_, ret>>
    /\ UNCHANGED <<call_vars, conf_vars, engine_vars, s, auth, synthesized,
                   result, calls, entry_channel>>

\* AuthorizationParameters::valid_check: the accessors throw on an invalid
\* object.
valid_check(p) == p.valid_

\* _grpc_auth: the request protobuf.
AuthenticateRESTRequest(req, header, param) ==
    LET base == [transaction_id |-> req.trans_id,
                 string_to_sign |-> "string_to_sign",
                 authorization_header |-> header,
                 http_method |-> "HTTP_METHOD_UNSPECIFIED",
                 bucket_name |-> << >>,
                 object_key |-> << >>,
                 x_amz_headers |-> << >>,
                 query_parameters |-> << >>]
    IN  IF HasValue(param)
        THEN [base EXCEPT
                !.http_method = method_to_reqmethod(Value(param).method_),
                !.bucket_name = Value(param).bucket_name_,
                !.object_key = Value(param).object_key_name_,
                !.x_amz_headers = Value(param).http_headers_,
                !.query_parameters = Value(param).http_query_params_]
        ELSE base

\* The channel a client stub is bound to, read under a shared lock on
\* m_channel_ that is released before the call is made.
StubChannel == channel_

\* _grpc_auth up to the AuthenticateREST call being issued.
GrpcAuthSend(t) ==
    /\ pc[t] = "grpc_auth"
    /\ IF /\ HasValue(authorization_param[t])
          /\ ~valid_check(Value(authorization_param[t]))
       THEN \* the exception leaves auth(): no verdict, the lock is released
            /\ pc' = [pc EXCEPT ![t] = "thrown"]
            /\ m_config_' = m_config_ \ {t}
            /\ UNCHANGED <<ret, calls>>
       ELSE IF ~HasValue(StubChannel)
       THEN /\ Return(t, AccessDenied("Internal error (gRPC channel not set)"))
            /\ UNCHANGED calls
       ELSE /\ calls' = [calls EXCEPT ![t] = Append(@,
                          [rpc |-> "AuthenticateREST",
                           status |-> Nothing,
                           channel |-> Value(StubChannel),
                           req |-> AuthenticateRESTRequest(
                                       s[t], auth[t], authorization_param[t])])]
            /\ pc' = [pc EXCEPT ![t] = "AuthenticateREST"]
            /\ UNCHANGED <<m_config_, ret>>
    /\ UNCHANGED <<call_vars, conf_vars, engine_vars, s, auth, synthesized,
                   authorization_param, is_chunked, result, seen,
                   entry_channel>>

\* Variant: the signing key is fetched whatever the verdict.
NeedsSigningKeyAnyVerdict(res, chunked) == chunked

\* Whether auth() goes on to fetch a signing key after _grpc_auth.
NeedsSigningKey(res, chunked) == ~res.is_err_ /\ chunked

\* AuthenticateREST returns; auth() returns the result or goes on to the
\* signing key.
\* Variant: a failed AuthenticateREST call is issued again.
GrpcAuthRecvRetry(t, statuses) ==
    /\ pc[t] = "AuthenticateREST"
    /\ \E status \in statuses, resp \in AuthResponses :
        LET res == Auth(status, resp)
        IN  /\ result' = [result EXCEPT ![t] = res]
            /\ calls' = [calls EXCEPT ![t][Len(calls[t])].status = Some(status)]
            /\ IF ~status.ok
               THEN /\ pc' = [pc EXCEPT ![t] = "grpc_auth"]
                    /\ UNCHANGED <<m_config_, ret>>
               ELSE IF NeedsSigningKey(res, is_chunked[t])
               THEN /\ pc' = [pc EXCEPT ![t] = "get_signing_key"]
                    /\ UNCHANGED <<m_config_, ret>>
               ELSE Return(t, res)
    /\ UNCHANGED <<call_vars, conf_vars, engine_vars, s, auth, synthesized,
                   authorization_param, is_chunked, seen, entry_channel>>

GrpcAuthRecv(t, statuses) ==
    /\ pc[t] = "AuthenticateREST"
    /\ \E status \in statuses, resp \in AuthResponses :
        LET res == Auth(status, resp)
        IN  /\ result' = [result EXCEPT ![t] = res]
            /\ calls' = [calls EXCEPT ![t][Len(calls[t])].status = Some(status)]
            /\ IF NeedsSigningKey(res, is_chunked[t])
               THEN /\ pc' = [pc EXCEPT ![t] = "get_signing_key"]
                    /\ UNCHANGED <<m_config_, ret>>
               ELSE Return(t, res)
    /\ UNCHANGED <<call_vars, conf_vars, engine_vars, s, auth, synthesized,
                   authorization_param, is_chunked, seen, entry_channel>>

GetSigningKeyRequest(req, header) ==
    [transaction_id |-> req.trans_id, authorization_header |-> header]

SigningKeyFailure == AccessDenied("failed to fetch signing key for chunked upload")

\* get_signing_key up to the GetSigningKey call being issued.
SigningKeySend(t) ==
    /\ pc[t] = "get_signing_key"
    /\ IF ~HasValue(StubChannel)
       THEN /\ Return(t, SigningKeyFailure)
            /\ UNCHANGED calls
       ELSE /\ calls' = [calls EXCEPT ![t] = Append(@,
                          [rpc |-> "GetSigningKey",
                           status |-> Nothing,
                           channel |-> Value(StubChannel),
                           req |-> GetSigningKeyRequest(s[t], auth[t])])]
            /\ pc' = [pc EXCEPT ![t] = "GetSigningKey"]
            /\ UNCHANGED <<m_config_, ret>>
    /\ UNCHANGED <<call_vars, conf_vars, engine_vars, s, auth, synthesized,
                   authorization_param, is_chunked, result, seen,
                   entry_channel>>

\* Variant: a failed fetch leaves the success verdict as it is.
WithSigningKeyIgnoringFailure(res, sk) ==
    IF ~sk.success_ THEN res
    ELSE set_signing_key(res, sk.signing_key_)

\* The verdict of auth() once get_signing_key() has returned sk.
WithSigningKey(res, sk) ==
    IF ~sk.success_ THEN SigningKeyFailure
    ELSE set_signing_key(res, sk.signing_key_)

\* GetSigningKey returns; auth() returns.
SigningKeyRecv(t, responses) ==
    /\ pc[t] = "GetSigningKey"
    /\ \E status \in KeyStatuses, resp \in responses :
          /\ Return(t, WithSigningKey(result[t], GetSigningKey(status, resp)))
          /\ calls' = [calls EXCEPT ![t][Len(calls[t])].status = Some(status)]
    /\ UNCHANGED <<call_vars, conf_vars, engine_vars, s, auth, synthesized,
                   authorization_param, is_chunked, result, seen,
                   entry_channel>>

\* The caller has taken the verdict; the thread can serve another request.
AuthEnd(t) ==
    /\ pc[t] = "done"
    /\ pc' = [pc EXCEPT ![t] = "idle"]
    /\ s' = [s EXCEPT ![t] = NoRequest]
    /\ auth' = [auth EXCEPT ![t] = << >>]
    /\ synthesized' = [synthesized EXCEPT ![t] = FALSE]
    /\ authorization_param' = [authorization_param EXCEPT ![t] = Nothing]
    /\ is_chunked' = [is_chunked EXCEPT ![t] = FALSE]
    /\ result' = [result EXCEPT ![t] = NoResult]
    /\ ret' = [ret EXCEPT ![t] = NoResult]
    /\ calls' = [calls EXCEPT ![t] = << >>]
    /\ seen' = [seen EXCEPT ![t] = Unread]
    /\ entry_channel' = [entry_channel EXCEPT ![t] = Nothing]
    /\ UNCHANGED <<call_vars, conf_vars, engine_vars, m_config_>>

(***************************************************************************)
(* Specifications                                                          *)
(***************************************************************************)
ToggleKeys == ChunkedKeys \cup SignatureV2Keys \cup AuthParamKeys

\* A configuration with every boolean key set and the first URI.
DefaultConf(c) ==
    /\ \A k \in BackoffKeys : c[k] = 1000
    /\ \A k \in ToggleKeys \cup BootKeys : c[k]
    /\ c["rgw_handoff_grpc_uri"] = "dns:auth-1"

AuthSteps(t, statuses, responses) ==
    \/ AuthHeader(t)
    \/ AuthPrepare(t)
    \/ GrpcAuthSend(t)
    \/ GrpcAuthRecv(t, statuses)
    \/ SigningKeySend(t)
    \/ SigningKeyRecv(t, responses)
    \/ AuthEnd(t)

\* Spec: concurrent auth() calls and notifications of the runtime toggles.
Init ==
    /\ conf \in Confs
    /\ DefaultConf(conf)
    /\ InitEngine
    /\ InitThreads
    /\ InitCalls

Next ==
    \/ init({TRUE})
    \/ ConfChange(ToggleKeys)
    \/ HandleChunked
    \/ HandleSignatureV2
    \/ HandleAuthParam
    \/ \E t \in Threads :
          \/ \E req \in CoreRequests : AuthBegin(t, req)
          \/ AuthSteps(t, CoreAuthStatuses, CoreKeyResponses)

Spec == Init /\ [][Next]_vars

\* SpecChannel: concurrent auth() calls and notifications of the URI.
NextChannel ==
    \/ init({TRUE})
    \/ ConfChange(UriKeys)
    \/ HandleUri({TRUE})
    \/ \E t \in Threads :
          \/ \E req \in CoreRequests : AuthBegin(t, req)
          \/ AuthSteps(t, CoreAuthStatuses, CoreKeyResponses)

SpecChannel == Init /\ [][NextChannel]_vars

\* SpecBackoff: notifications of the reconnect backoff keys, of the URI,
\* and of both at once; creating the new channel can fail.
ConfChangeBackoffAndUri ==
    /\ observer_added_
    /\ changed = {}
    /\ \E diff \in (SUBSET BackoffKeys) \ {{}} :
       \E v \in [diff -> BackoffValues] :
       \E u \in Uris \ {conf["rgw_handoff_grpc_uri"]} :
          /\ \A k \in diff : v[k] # conf[k]
          /\ conf' = [k \in DOMAIN conf |->
                        IF k \in diff THEN v[k]
                        ELSE IF k \in UriKeys THEN u ELSE conf[k]]
          /\ changed' = diff \cup UriKeys
          /\ notified' = diff \cup UriKeys
    /\ UNCHANGED <<call_vars, observer_added_, engine_vars, m_config_,
                   thread_vars>>

NextBackoff ==
    \/ init({TRUE})
    \/ ConfChange(BackoffKeys)
    \/ ConfChange(UriKeys)
    \/ ConfChangeBackoffAndUri
    \/ HandleBackoff
    \/ HandleUri(BOOLEAN)

SpecBackoff == Init /\ [][NextBackoff]_vars

\* SpecTestServer: a test that makes up to MaxServerCalls calls of start()
\* and stop() on one GRPCTestServer, in any order; BuildAndStart() can
\* fail.
MaxServerCalls == 5

ServerStep(srv) ==
    /\ test_server' = srv
    /\ UNCHANGED <<args_in, header_out, call_in, call_out, objectstatus_op,
                   translator, conf_vars, engine_vars, m_config_,
                   thread_vars>>

ServerStart ==
    /\ test_server.caller = "idle"
    /\ Len(test_server.calls) < MaxServerCalls
    /\ ServerStep(start(test_server))

ServerStartReturns ==
    /\ test_server.caller = "start"
    /\ ~test_server.initialising
    /\ ServerStep([test_server EXCEPT !.caller = "idle"])

ServerThreadBuild ==
    /\ test_server.server_thread_ = "building"
    /\ \E built \in BOOLEAN :
          ServerStep(server_thread_build(test_server, built))

ServerThreadWait ==
    /\ test_server.server_thread_ = "waiting"
    /\ test_server.shutdown
    /\ ServerStep(server_thread_wait(test_server))

ServerStop ==
    /\ test_server.caller = "idle"
    /\ ~test_server.initialising
    /\ Len(test_server.calls) < MaxServerCalls
    /\ ServerStep(stop(test_server))

ServerStopJoin ==
    /\ test_server.caller = "stop"
    /\ test_server.server_thread_ \in {"none", "returned"}
    /\ ServerStep(stop_join(test_server))

NextTestServer ==
    \/ ServerStart
    \/ ServerStartReturns
    \/ ServerThreadBuild
    \/ ServerThreadWait
    \/ ServerStop
    \/ ServerStopJoin

SpecTestServer == Init /\ [][NextTestServer]_vars

\* SpecTranslator: MaxThreads threads call the Error Translator at any time
\* and in any interleaving, the first calls included.
ThreadErrorTypes ==
    {"TYPE_ACCESS_DENIED", "TYPE_TOKEN_REFRESH_REQUIRED", "TYPE_UNSPECIFIED"}
ThreadHttpStatuses == {400, 403, 404}
ThreadMessages == {"denied"}

TranslatorStep(tr) ==
    /\ tr # translator
    /\ translator' = tr
    /\ UNCHANGED <<args_in, header_out, call_in, call_out, objectstatus_op,
                   test_server, conf_vars, engine_vars, m_config_,
                   thread_vars>>

TranslateEnter(t) ==
    /\ translator.threads[t].pc = "idle"
    /\ \E ty \in ThreadErrorTypes, st \in ThreadHttpStatuses,
          msg \in ThreadMessages :
          TranslatorStep(translate_enter(translator, t, ty, st, msg))

TranslateCallOnce(t) ==
    /\ translator.threads[t].pc = "call_once"
    /\ TranslatorStep(call_once(translator, t))

TranslatePopulate(t) ==
    /\ translator.threads[t].pc = "populate"
    /\ TranslatorStep(populate(translator, t))

TranslateFind(t) ==
    /\ translator.threads[t].pc = "find"
    /\ TranslatorStep(auth_map_find(translator, t))

TranslateReturn(t) ==
    /\ translator.threads[t].pc = "returned"
    /\ TranslatorStep([translator EXCEPT !.threads[t] = NotCalling])

NextTranslator ==
    \E t \in TranslatorThreads :
        \/ TranslateEnter(t)
        \/ TranslateCallOnce(t)
        \/ TranslatePopulate(t)
        \/ TranslateFind(t)
        \/ TranslateReturn(t)

SpecTranslator == Init /\ [][NextTranslator]_vars

\* SpecEngine: one auth() call at a time, every request and every reply,
\* from any configuration; the signature v2 and chunked upload toggles
\* change between and during calls.
InitEngineSpec ==
    /\ conf \in Confs
    /\ \A k \in BackoffKeys : conf[k] = 1000
    /\ conf["rgw_handoff_grpc_uri"] = "dns:auth-1"
    /\ InitEngine
    /\ InitThreads
    /\ InitCalls

EngineKeys == SignatureV2Keys \cup ChunkedKeys

NextEngine ==
    \/ init(BOOLEAN)
    \/ ConfChange(EngineKeys)
    \/ HandleChunked
    \/ HandleSignatureV2
    \/ \E req \in Requests : AuthBegin("t1", req)
    \/ AuthSteps("t1", AuthStatuses, KeyResponses)

SpecEngine == InitEngineSpec /\ [][NextEngine]_vars

\* SpecMode: one auth() call at a time, from any configuration, with
\* notifications of the two capture mode keys; init may fail to create the
\* channel.
NextMode ==
    \/ init(BOOLEAN)
    \/ ConfChange(AuthParamKeys)
    \/ HandleAuthParam
    \/ \E req \in CoreRequests : AuthBegin("t1", req)
    \/ AuthSteps("t1", CoreAuthStatuses, CoreKeyResponses)

SpecMode == InitEngineSpec /\ [][NextMode]_vars

\* SpecLive: a set of concurrent auth() calls, one per thread, and any
\* number of notifications of the toggles and of the URI.  Every step of a
\* started call and every block of a notification is taken when it stays
\* possible: outbound calls return.
AuthCallSteps(t, statuses, responses) ==
    \/ AuthHeader(t)
    \/ AuthPrepare(t)
    \/ GrpcAuthSend(t)
    \/ GrpcAuthRecv(t, statuses)
    \/ SigningKeySend(t)
    \/ SigningKeyRecv(t, responses)

Notification ==
    \/ HandleUri({TRUE})
    \/ HandleChunked

LiveRequests ==
    {Request(Some(V4Header), Some(STREAMING_PAYLOAD), NoArgs, <<"t">>, GetBK)}
LiveAuthStatuses == {st \in CoreAuthStatuses : st.ok}

NextLive ==
    \/ init({TRUE})
    \/ ConfChange(ChunkedKeys)
    \/ ConfChange(UriKeys)
    \/ Notification
    \/ \E t \in Threads :
          \/ \E req \in LiveRequests : AuthBegin(t, req)
          \/ AuthCallSteps(t, LiveAuthStatuses, CoreKeyResponses)

SpecLive ==
    /\ Init
    /\ [][NextLive]_vars
    /\ WF_vars(Notification)
    /\ \A t \in Threads :
          WF_vars(AuthCallSteps(t, LiveAuthStatuses, CoreKeyResponses))

\* SpecSynth: synthesize_auth_header applied to the query parameters of a
\* presigned request, for every combination of presence of the five
\* parameters it reads and every value up to MaxValueLen characters.
MaxValueLen == 1
ValueChars == {"k", ":"}

RECURSIVE ValuesUpTo(_)
ValuesUpTo(n) ==
    IF n = 0 THEN {<< >>}
    ELSE LET shorter == ValuesUpTo(n - 1)
         IN  shorter \cup {Append(v, c) : v \in shorter, c \in ValueChars}

SynthNames == {"AWSAccessKeyId", "Signature", "x-amz-credential",
               "x-amz-signedheaders", "x-amz-signature"}
SynthArgs == UNION {[present -> ValuesUpTo(MaxValueLen)] :
                        present \in SUBSET SynthNames}

InitSynth ==
    /\ conf \in Confs
    /\ DefaultConf(conf)
    /\ InitEngine
    /\ InitThreads
    /\ args_in \in SynthArgs
    /\ header_out = Nothing
    /\ call_in = << >>
    /\ call_out = Nothing
    /\ objectstatus_op = NullOp
    /\ test_server = GRPCTestServer
    /\ translator = ErrorTranslator

CallSynthesize ==
    /\ header_out = Nothing
    /\ header_out' = Some(synthesize_auth_header(args_in))
    /\ UNCHANGED <<args_in, call_in, call_out, objectstatus_op, test_server,
                   translator, conf_vars, engine_vars, m_config_,
                   thread_vars>>

NextSynth == CallSynthesize

SpecSynth == InitSynth /\ [][NextSynth]_vars

\* A function of the engine applied once to call_in; every variable of
\* the engine keeps its initial value.
InitCall(inputs) ==
    /\ conf \in Confs
    /\ DefaultConf(conf)
    /\ InitEngine
    /\ InitThreads
    /\ args_in = NoArgs
    /\ header_out = Nothing
    /\ call_in \in inputs
    /\ call_out = Nothing
    /\ objectstatus_op = NullOp
    /\ test_server = GRPCTestServer
    /\ translator = ErrorTranslator

Returns(value) ==
    /\ call_out = Nothing
    /\ call_out' = Some(value)
    /\ UNCHANGED <<args_in, header_out, call_in, objectstatus_op,
                   test_server, translator, conf_vars, engine_vars,
                   m_config_, thread_vars>>

\* SpecExpiry: valid_presigned_time applied to the query parameters of a
\* presigned request at a time now, for every combination of presence of
\* the parameters it reads, numbers of up to MaxNumberLen characters and
\* times up to MaxNow.
MaxNumberLen == 2
MaxNow == 17
NumberChars == {"1", "x"}

RECURSIVE NumberTexts(_)
NumberTexts(n) ==
    IF n = 0 THEN {<< >>}
    ELSE LET shorter == NumberTexts(n - 1)
         IN  shorter \cup {Append(v, c) : v \in shorter, c \in NumberChars}

DateTexts == {Date5, SubSeq(Date5, 1, 15), <<"x">>}

ExpiryValues(name) ==
    IF name \in {"Expires", "x-amz-expires"} THEN NumberTexts(MaxNumberLen)
    ELSE IF name = "x-amz-date" THEN DateTexts
    ELSE {<<"k">>}

ExpiryNames == {"AWSAccessKeyId", "x-amz-credential", "Expires",
                "x-amz-date", "x-amz-expires"}
ExpiryArgs ==
    UNION {{a \in [present -> UNION {ExpiryValues(n) : n \in present}] :
                \A n \in present : a[n] \in ExpiryValues(n)} :
           present \in SUBSET ExpiryNames}
ExpiryInputs == [args : ExpiryArgs, now : 0..MaxNow]

InitExpiry == InitCall(ExpiryInputs)

CallValidPresignedTime ==
    Returns(valid_presigned_time(call_in.args, call_in.now))

NextExpiry == CallValidPresignedTime

SpecExpiry == InitExpiry /\ [][NextExpiry]_vars

\* SpecTranslate: _translate_authenticator_error_code applied to every
\* error type of the table and two outside it, with the HTTP statuses
\* the fallback distinguishes and others.
UnmappedTypes == {"TYPE_UNSPECIFIED", "TYPE_NO_SUCH_BUCKET"}
ErrorTypes ==
    {auth_list[i].auth_type : i \in 1..Len(auth_list)} \cup UnmappedTypes
HttpStatuses == {0, 200, 400, 401, 403, 404, 500}
ErrorMessages == {"", "denied"}
TranslateInputs ==
    [auth_type : ErrorTypes, auth_http_status_code : HttpStatuses,
     message : ErrorMessages]

InitTranslate == InitCall(TranslateInputs)

CallTranslate ==
    Returns(_translate_authenticator_error_code(
                call_in.auth_type, call_in.auth_http_status_code,
                call_in.message))

NextTranslate == CallTranslate

SpecTranslate == InitTranslate /\ [][NextTranslate]_vars

\* SpecHttp: the HTTP transport's verdict for every result of the call,
\* HTTP status and response body of the model.
HttpResults == {0 - 110, 0 - 5, 0}
BodyValues(name) == IF name = "uid" THEN {"testid", ""} ELSE {"OK", "denied"}
Bodies ==
    {Nothing} \cup
    UNION {{Some(json) :
              json \in {j \in [present -> {"testid", "", "OK", "denied"}] :
                          \A n \in present : j[n] \in BodyValues(n)}} :
           present \in SUBSET {"message", "uid"}}
HttpInputs ==
    [vres : [result : HttpResults, http_code : HttpStatuses],
     resp_bl : Bodies]

InitHttp == InitCall(HttpInputs)

CallHttpVerdict == Returns(HttpVerdict(call_in.vres, call_in.resp_bl))

NextHttp == CallHttpVerdict

SpecHttp == InitHttp /\ [][NextHttp]_vars

\* SpecSnapshot: the AuthorizationParameters constructor applied to every
\* method case and every relative URI of up to MaxUriLen characters.
MaxUriLen == 6
UriChars == {"/", "b", "k", "x"}
RECURSIVE UriTexts(_)
UriTexts(n) ==
    IF n = 0 THEN {<< >>}
    ELSE LET shorter == UriTexts(n - 1)
         IN  shorter \cup {Append(u, c) : u \in shorter, c \in UriChars}
SnapshotTargets ==
    [method : {Nothing, Some(<< >>), Some(<<"G","E","T">>)},
     uri : UriTexts(MaxUriLen)]
SnapshotInputs ==
    {Request(Some(V4Header), Nothing, NoArgs, << >>, tg) : tg \in SnapshotTargets}

InitSnapshot == InitCall(SnapshotInputs)

CallAuthorizationParameters == Returns(AuthorizationParameters(call_in))

NextSnapshot == CallAuthorizationParameters

SpecSnapshot == InitSnapshot /\ [][NextSnapshot]_vars

\* SpecStoreQuery: tokenize, parse and op_get applied to the headers of the
\* tests, to every header of up to MaxHeaderLen bytes of HeaderBytes, and
\* to headers of the maximum length and one byte more, in each handler
\* context, on a fresh and on a used parser, for both signednesses of char.
MaxHeaderLen == 3
HeaderBytes == {"a", " ", "\"", "\\", "BEL", "DEL", "0xFF"}
RECURSIVE HeaderTexts(_)
HeaderTexts(n) ==
    IF n = 0 THEN {<< >>}
    ELSE LET shorter == HeaderTexts(n - 1)
         IN  shorter \cup {Append(h, c) : h \in shorter, c \in HeaderBytes}
TestHeaders ==
    {<<"o", "n", "e", " ", "t", "w", "o", " ", "t", "h", "r", "e", "e">>,
     <<"o", "n", "e", " ", "\"", "t", "w", "o", ",", " ", "t", "w", "o", "-", "a", "n", "d", "-", "a", "-", "h", "a", "l", "f", "\"", " ", "t", "h", "r", "e", "e">>,
     <<"o", "n", "e", " ", "\"", "t", "w", "o", "\\", "\"", "\"", " ", "t", "h", "r", "e", "e">>,
     <<"o", "n", "e", " ", "\"", "t", "w", "o", "\"", " ", "t", "h", "\\", "\"", "r", "e", "e">>,
     <<"P", "i", "n", "g", " ", "f", "o", "o">>,
     <<"p", "i", "n", "g">>,
     <<"p", "i", "n", "g", " ", "f", "o", "o", " ", "b", "a", "r">>,
     <<"p", "i", "n", "g", " ", "f", "o", "o", " ">>,
     <<"p", "i", "n", "g", " ", " ", "f", "o", "o">>,
     <<" ", "p", "i", "n", "g", " ", "f", "o", "o">>,
     <<"p", "i", "n", "g", " ", "\"", "a", " ", "b", "\"">>,
     <<"P", "I", "N", "G", " ", "F", "o", "o">>,
     <<"O", "b", "j", "e", "c", "t", "S", "t", "a", "t", "u", "s">>,
     <<"o", "b", "j", "e", "c", "t", "s", "t", "a", "t", "u", "s", " ", "f", "o", "o">>,
     <<"o", "b", "j", "e", "c", "t", "s", "t", "a", "t", "u", "s">>,
     <<"n", "o", "p", "e">>,
     <<"p", "i", "n", "g", " ", "\\", "x">>}
Pad(prefix, c, n) ==
    [i \in 1..n |-> IF i <= Len(prefix) THEN prefix[i] ELSE c]
LongHeaders ==
    {Pad(prefix, c, n) :
        prefix \in {<< >>, <<"p","i","n","g"," ">>},
        c \in {"a", " "},
        n \in {RGWSQMaxHeaderLength, RGWSQMaxHeaderLength + 1}}
    \cup {Pad(<<"p","i","n","g"," ","DEL">>, "a", RGWSQMaxHeaderLength + 1)}
Headers == HeaderTexts(MaxHeaderLen) \cup TestHeaders \cup LongHeaders
UsedParser ==
    [op_ |-> PingOp(<<"f","o","o">>), command_ |-> <<"p","i","n","g">>,
     param_ |-> <<<<"f","o","o">>>>]
RGWSQHandlerType == {"Service", "Bucket", "Obj"}
StoreQueryInputs ==
    [hdr : {Nothing} \cup {Some(h) : h \in Headers},
     parser : {reset, UsedParser},
     handler_type : RGWSQHandlerType,
     char_signed : BOOLEAN]

InitStoreQuery == InitCall(StoreQueryInputs)

CallTokenize ==
    /\ HasValue(call_in.hdr)
    /\ Returns([fn |-> "tokenize",
                out |-> tokenize(call_in.parser, Value(call_in.hdr),
                                 call_in.char_signed)])

CallParse ==
    /\ HasValue(call_in.hdr)
    /\ Returns([fn |-> "parse",
                out |-> parse(call_in.parser, Value(call_in.hdr),
                              call_in.handler_type, call_in.char_signed)])

CallOpGet ==
    /\ call_in.parser = reset
    /\ Returns([fn |-> "op_get",
                out |-> op_get(call_in.hdr, call_in.handler_type,
                               call_in.char_signed)])

NextStoreQuery == CallTokenize \/ CallParse \/ CallOpGet

SpecStoreQuery == InitStoreQuery /\ [][NextStoreQuery]_vars

\* SpecObjectStatus: one objectstatus request for key "k" on a bucket whose
\* ordered, versioned listing for the prefix "k" has up to MaxListing
\* entries and whose multipart table has up to MaxUploads uploads for that
\* prefix.  Every call of the store fails with one of ListErrors or returns
\* the next page, of one entry or more, up to the page size asked for; past
\* the end of the listing it returns the empty page.
MaxListing == 3
MaxUploads == 2
ObjectKey == "k"
ListErrors == {Neg("EIO"), Neg("EACCES")}
Entries ==
    {[name |-> "k", current |-> c, delete_marker |-> d,
      size |-> IF d THEN 0 ELSE IF c THEN 7 ELSE 9] : c, d \in BOOLEAN}
    \cup {[name |-> "k", current |-> TRUE, delete_marker |-> FALSE,
           size |-> 8]}
    \cup {[name |-> "kx", current |-> TRUE, delete_marker |-> FALSE,
           size |-> 5]}
Uploads ==
    {[key |-> "k", upload_id |-> "u1"], [key |-> "k", upload_id |-> "u2"],
     [key |-> "kx", upload_id |-> "u3"]}
SeqsUpTo(S, n) == UNION {[1..k -> S] : k \in 0..n}
\* A listing is ordered by key.  An index holds one current entry per key;
\* the listings here may hold more, so that the choice among several is
\* covered too.
Listings ==
    {l \in SeqsUpTo(Entries, MaxListing) :
        \A i, j \in 1..Len(l) :
            (i < j) => ~(l[i].name = "kx" /\ l[j].name = "k")}
\* An upload of a longer key can be listed before one of the key: the
\* table is ordered by the names of the upload's meta objects.
UploadTables ==
    {u \in SeqsUpTo(Uploads, MaxUploads) :
        \A i, j \in 1..Len(u) :
            (u[i].upload_id = u[j].upload_id) => i = j}
ObjectStatusInputs ==
    [bucket_tenant : {<< >>, <<"t">>}, bucket_name : {<<"b">>},
     key : {ObjectKey}, objs : Listings, uploads : UploadTables]

InitObjectStatus ==
    /\ conf \in Confs
    /\ DefaultConf(conf)
    /\ InitEngine
    /\ InitThreads
    /\ args_in = NoArgs
    /\ header_out = Nothing
    /\ call_in \in ObjectStatusInputs
    /\ call_out = Nothing
    /\ objectstatus_op = RGWStoreQueryOp_ObjectStatus
    /\ test_server = GRPCTestServer
    /\ translator = ErrorTranslator

\* The next page of a listing after the cursor, of at most max entries.
Pages(listing, cursor, max) ==
    IF cursor >= Len(listing) THEN {<< >>}
    ELSE {SubSeq(listing, cursor + 1, cursor + n) :
            n \in 1..(IF Len(listing) - cursor < max
                      THEN Len(listing) - cursor ELSE max)}

OpStep(op) ==
    /\ objectstatus_op' = op
    /\ UNCHANGED <<args_in, header_out, call_in, call_out, test_server,
                   translator, conf_vars, engine_vars, m_config_,
                   thread_vars>>

\* execute() is entered.
Execute ==
    /\ objectstatus_op.pc = "new"
    /\ OpStep(execute(objectstatus_op, call_in.bucket_tenant,
                      call_in.bucket_name, call_in.key))

\* s->bucket->list returns, and execute_simple_query goes on from it.
BucketList(errors) ==
    /\ objectstatus_op.pc = "simple"
    /\ \E res \in {[ret |-> e, objs |-> << >>] : e \in errors}
                  \cup {[ret |-> NoCode, objs |-> p] :
                          p \in Pages(call_in.objs, objectstatus_op.marker,
                                      version_query_max)} :
          OpStep(execute_simple_query(objectstatus_op, res))

\* s->bucket->list_multiparts returns, and execute_mpupload_query goes on
\* from it.
ListMultiparts(errors) ==
    /\ objectstatus_op.pc = "mpupload"
    /\ \E res \in {[ret |-> e, uploads |-> << >>] : e \in errors}
                  \cup {[ret |-> NoCode, uploads |-> p] :
                          p \in Pages(call_in.uploads,
                                      objectstatus_op.mp_marker,
                                      mp_query_max)} :
          OpStep(execute_mpupload_query(objectstatus_op, res))

\* send_response() after execute() has returned.
SendResponse ==
    /\ objectstatus_op.pc = "executed"
    /\ OpStep(send_response(objectstatus_op))

NextObjectStatus ==
    \/ Execute
    \/ BucketList(ListErrors)
    \/ ListMultiparts(ListErrors)
    \/ SendResponse

SpecObjectStatus == InitObjectStatus /\ [][NextObjectStatus]_vars

\* The same request when every call of the store returns and the request
\* thread keeps running.
SpecObjectStatusLive == SpecObjectStatus /\ WF_vars(NextObjectStatus)

(***************************************************************************)
(* Properties                                                              *)
(***************************************************************************)
\* What a request offers as its Authorization header.
Inbound(req) == HTTP_AUTHORIZATION \in DOMAIN req.env
Synthesizable(req) == HasValue(synthesize_auth_header(req.args))
\* The header of a request that offers one: the inbound one if there is one.
HeaderOf(req) ==
    IF Inbound(req) THEN req.env[HTTP_AUTHORIZATION]
    ELSE Value(synthesize_auth_header(req.args))
StreamingPayload(req) ==
    /\ HTTP_X_AMZ_CONTENT_SHA256 \in DOMAIN req.env
    /\ req.env[HTTP_X_AMZ_CONTENT_SHA256] = STREAMING_PAYLOAD
IsAccessDenied(verdict) ==
    /\ verdict.is_err_
    /\ verdict.errorcode_ = Neg("EACCES")
    /\ verdict.userid_ = ""
    /\ verdict.signing_key_ = Nothing
Rpcs(t) == {calls[t][i].rpc : i \in DOMAIN calls[t]}
V2DisabledMessage == "Access denied (V2 signatures disabled)"
ChunkedDisabledMessage == "chunked upload is disabled"

\* C1: auth() issues no outbound call (AuthenticateREST, GetSigningKey)
\* unless it has obtained an Authorization header, either from
\* HTTP_AUTHORIZATION or synthesized from the presigned query parameters,
\* and every call carries such a header; a request with no header and
\* nothing to synthesize one from is answered with an access-denied error
\* verdict and no outbound call.
C1_NoCallWithoutHeader ==
    \A t \in Threads :
        /\ calls[t] # << >> =>
              /\ Inbound(s[t]) \/ Synthesizable(s[t])
              /\ \A i \in DOMAIN calls[t] :
                    calls[t][i].req.authorization_header = HeaderOf(s[t])
        /\ (pc[t] \notin {"idle", "locked"}
                /\ ~Inbound(s[t]) /\ ~Synthesizable(s[t])) =>
              /\ pc[t] = "done"
              /\ IsAccessDenied(ret[t])
              /\ calls[t] = << >>

C1_Witness ==
    \E t \in Threads :
        /\ pc[t] = "done"
        /\ ~Inbound(s[t]) /\ ~Synthesizable(s[t])
        /\ exists(s[t].args, "AWSAccessKeyId")
        /\ IsAccessDenied(ret[t])

\* C2: for a chunked request (x-amz-content-sha256 is
\* STREAMING-AWS4-HMAC-SHA256-PAYLOAD) a success verdict of auth() carries a
\* signing key and that key is non-empty; an error verdict carries no
\* signing key.
C2_ChunkedOkHasNonEmptyKey ==
    \A t \in Threads :
        pc[t] = "done" =>
            /\ (StreamingPayload(s[t]) /\ ~ret[t].is_err_) =>
                  /\ HasValue(ret[t].signing_key_)
                  /\ Value(ret[t].signing_key_) # << >>
            /\ ret[t].is_err_ => ~HasValue(ret[t].signing_key_)

\* C3: while any auth() call holds the shared lock on m_config_ no setter
\* of the signature v2 toggle, the chunked upload toggle or the
\* authorization parameter mode commits, so the values one call has read
\* are the current ones until it returns.
C3_TogglesStableDuringAuth ==
    [][ /\ m_config_ # {} => RuntimeConfig' = RuntimeConfig
        /\ \A t \in m_config_ :
              /\ HasValue(seen[t].signature_v2) =>
                    Value(seen[t].signature_v2) = enable_signature_v2_
              /\ HasValue(seen[t].chunked_upload) =>
                    Value(seen[t].chunked_upload) = enable_chunked_upload_
              /\ HasValue(seen[t].authorization_mode) =>
                    Value(seen[t].authorization_mode) = authorization_mode_
      ]_vars

\* A call has read the signature v2 toggle, and a notification that would
\* change that toggle is waiting to be handled.
C3_Witness ==
    \E t \in m_config_ :
        /\ HasValue(seen[t].signature_v2)
        /\ "rgw_handoff_enable_signature_v2" \in changed
        /\ conf["rgw_handoff_enable_signature_v2"] # enable_signature_v2_

\* C4: a configuration change notified while an auth() call is in progress
\* is not applied to that call: the channel each of its outbound calls
\* (AuthenticateREST, GetSigningKey) is made on is the channel that was in
\* force when the call started.
C4_ChannelOfEntry ==
    \A t \in Threads :
        HasValue(entry_channel[t]) =>
            \A i \in DOMAIN calls[t] :
                calls[t][i].channel = Value(entry_channel[t])

\* C5: GetSigningKey is issued only after AuthenticateREST of the same
\* auth() call has completed with a success verdict, and only for a chunked
\* request; an error verdict of AuthenticateREST is returned as it is, with
\* no further call.
C5_SigningKeyOnlyAfterOk ==
    \A t \in Threads :
        /\ \A i \in DOMAIN calls[t] :
              calls[t][i].rpc = "GetSigningKey" =>
                  /\ i = 2
                  /\ calls[t][1].rpc = "AuthenticateREST"
                  /\ HasValue(calls[t][1].status)
                  /\ Value(calls[t][1].status).ok
                  /\ ~result[t].is_err_
                  /\ StreamingPayload(s[t])
        /\ (calls[t] # << >> /\ HasValue(calls[t][1].status)
                /\ ~Value(calls[t][1].status).ok) =>
              /\ pc[t] = "done"
              /\ result[t].is_err_
              /\ ret[t] = result[t]
              /\ Len(calls[t]) = 1

C5_Witness ==
    \E t \in Threads :
        /\ pc[t] = "done"
        /\ Rpcs(t) = {"AuthenticateREST", "GetSigningKey"}
        /\ ~ret[t].is_err_

\* C6: when the signature v2 toggle is false a request whose Authorization
\* header, inbound or synthesized, begins with 'AWS ' gets an access-denied
\* error verdict and no outbound call; no other header is rejected for this
\* reason, nor is any header when the toggle is true.
C6_SignatureV2Toggle ==
    \A t \in Threads :
        LET read == HasValue(seen[t].signature_v2)
            v2 == /\ Inbound(s[t]) \/ Synthesizable(s[t])
                  /\ starts_with(HeaderOf(s[t]), AWS_SP)
        IN  /\ (read /\ ~Value(seen[t].signature_v2) /\ v2) =>
                  /\ pc[t] = "done"
                  /\ IsAccessDenied(ret[t])
                  /\ ret[t].message_ = V2DisabledMessage
                  /\ calls[t] = << >>
            /\ (pc[t] = "done" /\ ret[t].message_ = V2DisabledMessage) =>
                  /\ read /\ ~Value(seen[t].signature_v2)
                  /\ v2

C6_Witness ==
    \E t \in Threads :
        /\ pc[t] = "done"
        /\ ~Inbound(s[t])
        /\ ret[t].message_ = V2DisabledMessage
        /\ calls[t] = << >>

\* C7: when the chunked upload toggle is false a request whose
\* x-amz-content-sha256 header is exactly
\* STREAMING-AWS4-HMAC-SHA256-PAYLOAD gets an access-denied error verdict
\* and neither AuthenticateREST nor GetSigningKey is called; a request with
\* any other value of the header, or without it, is never rejected for
\* this reason.
C7_ChunkedToggle ==
    \A t \in Threads :
        /\ seen[t].chunked_upload = Some(FALSE) =>
              /\ StreamingPayload(s[t])
              /\ pc[t] = "done"
              /\ IsAccessDenied(ret[t])
              /\ ret[t].message_ = ChunkedDisabledMessage
              /\ calls[t] = << >>
        /\ (pc[t] \in {"grpc_auth", "AuthenticateREST", "get_signing_key",
                       "GetSigningKey"} /\ StreamingPayload(s[t])) =>
              seen[t].chunked_upload = Some(TRUE)
        /\ (pc[t] = "done" /\ ret[t].message_ = ChunkedDisabledMessage) =>
              StreamingPayload(s[t])

C7_Witness ==
    \E t \in Threads :
        /\ pc[t] = "done"
        /\ StreamingPayload(s[t])
        /\ ret[t].message_ = ChunkedDisabledMessage
        /\ calls[t] = << >>

\* C8: for a chunked request whose AuthenticateREST call returned a success
\* verdict, a failed signing-key fetch (the GetSigningKey call fails, or
\* there is no channel to make it on) makes auth() return an access-denied
\* error verdict, with no user id and no signing key.
C8_SigningKeyFailureDenies ==
    \A t \in Threads :
        (/\ pc[t] = "done"
         /\ StreamingPayload(s[t])
         /\ calls[t] # << >>
         /\ calls[t][1].status # Nothing
         /\ Value(calls[t][1].status).ok
         /\ \/ Len(calls[t]) = 1
            \/ ~Value(calls[t][2].status).ok) =>
            IsAccessDenied(ret[t])

C8_Witness ==
    \E t \in Threads :
        /\ pc[t] = "done"
        /\ Len(calls[t]) = 2
        /\ ~Value(calls[t][2].status).ok
        /\ IsAccessDenied(ret[t])

\* C9: when the request carries HTTP_AUTHORIZATION, the authorization
\* string of every outbound call (AuthenticateREST and GetSigningKey) is
\* that header's value unchanged, whatever presigned query parameters the
\* request also has, and no header is synthesized.
C9_InboundHeaderVerbatim ==
    \A t \in Threads :
        Inbound(s[t]) =>
            /\ ~synthesized[t]
            /\ pc[t] \notin {"idle", "locked", "done"} =>
                  auth[t] = s[t].env[HTTP_AUTHORIZATION]
            /\ \A i \in DOMAIN calls[t] :
                  calls[t][i].req.authorization_header
                      = s[t].env[HTTP_AUTHORIZATION]

C9_Witness ==
    \E t \in Threads :
        /\ Inbound(s[t])
        /\ Synthesizable(s[t])
        /\ Rpcs(t) = {"AuthenticateREST", "GetSigningKey"}

\* C10: synthesize_auth_header, for every combination of presence of the
\* parameters: with AWSAccessKeyId present it yields
\* 'AWS <AWSAccessKeyId>:<Signature>' if Signature is present and fails
\* otherwise, whatever v4 parameters are present; else with
\* x-amz-credential present it yields 'AWS4-HMAC-SHA256
\* Credential=<x-amz-credential>, SignedHeaders=<x-amz-signedheaders>,
\* Signature=<x-amz-signature>' if the other two are present and fails
\* otherwise; else it fails.  The values appear unchanged.
C10_SynthesizeAuthHeader ==
    HasValue(header_out) =>
        LET a == args_in
            out == Value(header_out)
        IN  IF "AWSAccessKeyId" \in DOMAIN a
            THEN IF "Signature" \in DOMAIN a
                 THEN out = Some(<<"A", "W", "S", " ">> \o a["AWSAccessKeyId"]
                                 \o <<":">> \o a["Signature"])
                 ELSE out = Nothing
            ELSE IF "x-amz-credential" \in DOMAIN a
            THEN IF {"x-amz-signedheaders", "x-amz-signature"}
                        \subseteq DOMAIN a
                 THEN out = Some(V4_CREDENTIAL \o a["x-amz-credential"]
                                 \o V4_SIGNEDHEADERS
                                 \o a["x-amz-signedheaders"]
                                 \o V4_SIGNATURE \o a["x-amz-signature"])
                 ELSE out = Nothing
            ELSE out = Nothing

\* The access key is present without Signature, the three v4 parameters
\* are all present, and the synthesis has failed.
C10_Witness ==
    /\ HasValue(header_out)
    /\ Value(header_out) = Nothing
    /\ DOMAIN args_in = SynthNames \ {"Signature"}

\* A query parameter value that is a decimal integer.
IsInteger(str) == str # << >> /\ \A i \in 1..Len(str) : IsDigit(str[i])
ExpiryFailedMessage == "Presigned URL expiry check failed"

\* C11: valid_presigned_time(now) is true exactly when now <= expiry,
\* where expiry is Expires for a v2 presigned URL (AWSAccessKeyId present)
\* and x-amz-date + x-amz-expires for a v4 presigned URL (x-amz-credential
\* present, AWSAccessKeyId absent): accepted at now = expiry, rejected at
\* now = expiry + 1.
C11_ValidUntilExpiry ==
    HasValue(call_out) =>
        LET a == call_in.args
            v2 == "AWSAccessKeyId" \in DOMAIN a
            v4 == ~v2 /\ "x-amz-credential" \in DOMAIN a
        IN  /\ (v2 /\ "Expires" \in DOMAIN a /\ IsInteger(a["Expires"])) =>
                  Value(call_out) = (call_in.now <= DigitsValue(a["Expires"]))
            /\ (/\ v4
                /\ {"x-amz-date", "x-amz-expires"} \subseteq DOMAIN a
                /\ HasValue(ParseTime(a["x-amz-date"]))
                /\ IsInteger(a["x-amz-expires"])) =>
                  Value(call_out) =
                      (call_in.now <= Value(ParseTime(a["x-amz-date"]))
                                        + DigitsValue(a["x-amz-expires"]))

\* A v4 URL asked about one second after its expiry, and rejected.
C11_Witness ==
    /\ HasValue(call_out)
    /\ ~Value(call_out)
    /\ DOMAIN call_in.args =
           {"x-amz-credential", "x-amz-date", "x-amz-expires"}
    /\ HasValue(ParseTime(call_in.args["x-amz-date"]))
    /\ IsInteger(call_in.args["x-amz-expires"])
    /\ call_in.now = Value(ParseTime(call_in.args["x-amz-date"]))
                       + DigitsValue(call_in.args["x-amz-expires"]) + 1

\* C12: valid_presigned_time is false whenever a parameter it needs is
\* missing or cannot be parsed: Expires for a v2 URL; x-amz-date or
\* x-amz-expires for a v4 URL, an x-amz-expires that is not an integer
\* included; and when neither AWSAccessKeyId nor x-amz-credential is
\* present.
C12_FailClosed ==
    HasValue(call_out) =>
        LET a == call_in.args
            v2 == "AWSAccessKeyId" \in DOMAIN a
            v4 == ~v2 /\ "x-amz-credential" \in DOMAIN a
            unusable(name) ==
                name \notin DOMAIN a \/ ~SimpleAtoi(a[name]).ok
            no_date == \/ "x-amz-date" \notin DOMAIN a
                       \/ ~HasValue(ParseTime(a["x-amz-date"]))
        IN  (\/ ~v2 /\ ~v4
             \/ v2 /\ unusable("Expires")
             \/ v4 /\ (no_date \/ unusable("x-amz-expires"))) =>
                ~Value(call_out)

\* C13: in auth() the presigned expiry check runs exactly when the header
\* was synthesized and presigned_expiry_check_ is set; when it runs and
\* fails, auth() returns access-denied and makes no outbound call; a
\* request with an inbound Authorization header is never rejected for
\* expiry, and with the check off an expired presigned request goes on to
\* the Authenticator.
C13_ExpiryCheckInAuth ==
    \A t \in Threads :
        LET ran == HasValue(seen[t].now)
            expired == ran /\ ~valid_presigned_time(s[t].args,
                                                    Value(seen[t].now))
        IN  /\ ran <=> (/\ pc[t] \notin {"idle", "locked"}
                        /\ ~Inbound(s[t])
                        /\ seen[t].expiry_check = Some(TRUE))
            /\ Inbound(s[t]) => seen[t].expiry_check = Nothing
            /\ expired =>
                  /\ pc[t] = "done"
                  /\ IsAccessDenied(ret[t])
                  /\ ret[t].message_ = ExpiryFailedMessage
                  /\ calls[t] = << >>
            /\ (pc[t] = "done" /\ ret[t].message_ = ExpiryFailedMessage) =>
                  expired

\* The check is off and a presigned request that is expired at one of the
\* times of the model has reached the Authenticator.
C13_Witness ==
    \E t \in Threads :
        /\ seen[t].expiry_check = Some(FALSE)
        /\ \E now \in Times : ~valid_presigned_time(s[t].args, now)
        /\ calls[t] # << >>

\* The table of the Error Translator: Authenticator type, gateway code.
TranslatorTable ==
    [TYPE_ACCESS_DENIED |-> "EACCES",
     TYPE_AUTHORIZATION_HEADER_MALFORMED |-> "ERR_INVALID_REQUEST",
     TYPE_EXPIRED_TOKEN |-> "EACCES",
     TYPE_INTERNAL_ERROR |-> "ERR_INTERNAL_ERROR",
     TYPE_INVALID_ACCESS_KEY_ID |-> "ERR_INVALID_ACCESS_KEY",
     TYPE_INVALID_REQUEST |-> "EINVAL",
     TYPE_INVALID_SECURITY |-> "EINVAL",
     TYPE_INVALID_TOKEN |-> "ERR_INVALID_IDENTITY_TOKEN",
     TYPE_INVALID_URI |-> "ERR_INVALID_REQUEST",
     TYPE_METHOD_NOT_ALLOWED |-> "ERR_METHOD_NOT_ALLOWED",
     TYPE_MISSING_SECURITY_HEADER |-> "ERR_INVALID_REQUEST",
     TYPE_REQUEST_TIME_TOO_SKEWED |-> "ERR_REQUEST_TIME_SKEWED",
     TYPE_SIGNATURE_DOES_NOT_MATCH |-> "ERR_SIGNATURE_NO_MATCH",
     TYPE_TOKEN_REFRESH_REQUIRED |-> "ERR_INVALID_REQUEST"]

\* C14: _translate_authenticator_error_code returns, for each of the 14
\* error types of the table, an error verdict with the gateway code of the
\* table whatever the HTTP status; for a type outside the table, INVALID
\* for status 400, NOT_FOUND for 404 and ACCESS for 403 and every other
\* status.  The message is copied unchanged and the category is AuthError.
C14_TranslatorTable ==
    HasValue(call_out) =>
        LET verdict == Value(call_out)
            ty == call_in.auth_type
            status == call_in.auth_http_status_code
        IN  /\ Cardinality(DOMAIN TranslatorTable) = 14
            /\ verdict.is_err_
            /\ verdict.err_type_ = "AUTH_ERROR"
            /\ verdict.message_ = call_in.message
            /\ verdict.errorcode_.name =
                  IF ty \in DOMAIN TranslatorTable THEN TranslatorTable[ty]
                  ELSE IF status = 400 THEN "EINVAL"
                  ELSE IF status = 404 THEN "ERR_NOT_FOUND"
                  ELSE "EACCES"

\* A type of the table translated with status 404.
C14_Witness ==
    /\ HasValue(call_out)
    /\ call_in.auth_type = "TYPE_SIGNATURE_DOES_NOT_MATCH"
    /\ call_in.auth_http_status_code = 404
    /\ Value(call_out).errorcode_.name = "ERR_SIGNATURE_NO_MATCH"

\* C15: when AuthenticateREST fails and its status carries no usable
\* S3ErrorDetails payload (error details empty, details that cannot be
\* decoded, or decoded details with no S3ErrorDetails message) the verdict
\* is an error with the access-denied code and category TransportError;
\* only when an S3ErrorDetails payload is present is the category
\* AuthError, with the code chosen by the Error Translator.
C15_NoDetailsIsTransportError ==
    \A t \in Threads :
        (/\ calls[t] # << >>
         /\ HasValue(calls[t][1].status)
         /\ ~Value(calls[t][1].status).ok) =>
            LET status == Value(calls[t][1].status)
                payloads ==
                    IF status.error_details = "decoded"
                    THEN SelectSeq(status.details, LAMBDA d : d.is_s3)
                    ELSE << >>
            IN  IF payloads = << >>
                THEN /\ result[t].is_err_
                     /\ result[t].errorcode_ = Neg("EACCES")
                     /\ result[t].err_type_ = "TRANSPORT_ERROR"
                ELSE /\ result[t].is_err_
                     /\ result[t].err_type_ = "AUTH_ERROR"
                     /\ result[t] = _translate_authenticator_error_code(
                                        payloads[1].type,
                                        payloads[1].http_status_code,
                                        status.error_message)

\* A response body that is a JSON object with both message and uid.
BodyParses(resp_bl) ==
    HasValue(resp_bl) /\ {"message", "uid"} \subseteq DOMAIN Value(resp_bl)

\* C16: on the HTTP transport, when the call succeeded and the response
\* body parsed, the verdict is Ok(uid, message) only for HTTP status 200;
\* status 401 gives ERR_SIGNATURE_NO_MATCH, 404 gives
\* ERR_INVALID_ACCESS_KEY, and every other status, a missing status
\* included, gives an access-denied error verdict.
C16_HttpStatusMapping ==
    (/\ HasValue(call_out)
     /\ call_in.vres.result >= 0
     /\ BodyParses(call_in.resp_bl)) =>
        LET verdict == Value(call_out)
            status == call_in.vres.http_code
            json == Value(call_in.resp_bl)
        IN  IF status = 200
            THEN /\ ~verdict.is_err_
                 /\ verdict.userid_ = json["uid"]
                 /\ verdict.message_ = json["message"]
            ELSE /\ verdict.is_err_
                 /\ verdict.errorcode_ =
                       IF status = 401 THEN Neg("ERR_SIGNATURE_NO_MATCH")
                       ELSE IF status = 404 THEN Neg("ERR_INVALID_ACCESS_KEY")
                       ELSE Neg("EACCES")

\* C17: on the HTTP transport a transport failure (negative result) gives
\* access-denied whatever the HTTP status and body; otherwise a body that
\* is not JSON or lacks message or uid gives an ERR_INTERNAL_ERROR verdict
\* whatever the HTTP status, 200 and 401 included; only then is the status
\* mapped.  The uid of a response that failed to parse is never returned.
C17_HttpOrder ==
    HasValue(call_out) =>
        LET verdict == Value(call_out)
        IN  /\ call_in.vres.result < 0 =>
                  /\ verdict.is_err_
                  /\ verdict.errorcode_ = Neg("EACCES")
            /\ (call_in.vres.result >= 0 /\ ~BodyParses(call_in.resp_bl)) =>
                  /\ verdict.is_err_
                  /\ verdict.errorcode_ = Neg("ERR_INTERNAL_ERROR")
            /\ ~BodyParses(call_in.resp_bl) => verdict.userid_ = ""

\* A response with status 401 and a uid but no message.
C17_Witness ==
    /\ HasValue(call_out)
    /\ call_in.vres.result = 0
    /\ call_in.vres.http_code = 401
    /\ HasValue(call_in.resp_bl)
    /\ DOMAIN Value(call_in.resp_bl) = {"uid"}
    /\ Value(call_in.resp_bl)["uid"] = "testid"
    /\ Value(call_out).errorcode_ = Neg("ERR_INTERNAL_ERROR")

\* The capture policy and the validity of the snapshot, from the request
\* and the mode the call read.
PolicyApplies(t) ==
    \/ seen[t].authorization_mode = Some("ALWAYS")
    \/ /\ seen[t].authorization_mode = Some("WITHTOKEN")
       /\ s[t].session_token # << >>
SnapshotValid(req) ==
    /\ HasValue(req.method)
    /\ Value(req.method) # << >>
    /\ req.relative_uri # << >>
    /\ Head(req.relative_uri) = "/"
XAmzHeaders(req) ==
    IF HTTP_X_AMZ_CONTENT_SHA256 \in DOMAIN req.env
    THEN <<"x","-","a","m","z","-","c","o","n","t","e","n","t","-",
           "s","h","a","2","5","6">> :> req.env[HTTP_X_AMZ_CONTENT_SHA256]
    ELSE << >>
NoEnrichedContext(req) ==
    /\ req.http_method = "HTTP_METHOD_UNSPECIFIED"
    /\ req.bucket_name = << >>
    /\ req.object_key = << >>
    /\ req.x_amz_headers = << >>
    /\ req.query_parameters = << >>
AuthenticateRESTCalls(t) ==
    {i \in DOMAIN calls[t] : calls[t][i].rpc = "AuthenticateREST"}

\* C18: the AuthenticateREST request carries the enriched context (method,
\* bucket, key, x-amz headers, query parameters) exactly when the capture
\* mode read by that call is ALWAYS, or WITHTOKEN with a non-empty session
\* token, and the snapshot is valid; in NEVER, and in WITHTOKEN with an
\* empty token, no snapshot is built and none of these fields is sent.
C18_EnrichedContext ==
    \A t \in Threads :
        /\ (pc[t] \notin {"idle", "locked", "header", "prepare"}
            /\ ~PolicyApplies(t)) => seen[t].snapshot = Nothing
        /\ \A i \in AuthenticateRESTCalls(t) :
              LET req == calls[t][i].req
              IN  IF PolicyApplies(t) /\ SnapshotValid(s[t])
                  THEN /\ s[t].method = Some(<<"G","E","T">>)
                            => req.http_method = "HTTP_METHOD_GET"
                       /\ s[t].relative_uri = <<"/","b","/","k">>
                            => /\ req.bucket_name = <<"b">>
                               /\ req.object_key = <<"k">>
                       /\ req.x_amz_headers = XAmzHeaders(s[t])
                       /\ req.query_parameters = s[t].args
                       /\ ~NoEnrichedContext(req)
                  ELSE NoEnrichedContext(req)

\* A call in WITHTOKEN mode with a session token carries the context, and
\* so does a call in ALWAYS mode without one.
C18_Witness ==
    /\ AuthenticateRESTCalls("t1") # {}
    /\ seen["t1"].authorization_mode = Some("WITHTOKEN")
    /\ s["t1"].session_token # << >>
    /\ calls["t1"][1].req.http_method = "HTTP_METHOD_GET"
    /\ calls["t1"][1].req.bucket_name = <<"b">>

\* C19: when the policy applies but the snapshot is invalid (method missing
\* or empty, or relative URI not beginning with '/'), auth() does not fail
\* for that reason: it proceeds without enriched context, no accessor of
\* the invalid snapshot is called (none throws), and the verdict is the
\* Authenticator's for the request without parameters.
C19_InvalidSnapshotIgnored ==
    \A t \in Threads :
        /\ pc[t] # "thrown"
        /\ (/\ pc[t] \notin {"idle", "locked", "header", "prepare"}
            /\ PolicyApplies(t)
            /\ ~SnapshotValid(s[t])) =>
              /\ HasValue(seen[t].snapshot)
              /\ authorization_param[t] = Nothing
              /\ \A i \in AuthenticateRESTCalls(t) :
                    NoEnrichedContext(calls[t][i].req)
              /\ pc[t] = "done" =>
                    IF calls[t] = << >>
                    THEN \/ ret[t].message_ = ChunkedDisabledMessage
                         \/ ret[t].message_ =
                               "Internal error (gRPC channel not set)"
                    ELSE /\ HasValue(calls[t][1].status)
                         /\ \E resp \in AuthResponses :
                               result[t] = Auth(Value(calls[t][1].status), resp)
                         /\ ~is_chunked[t] => ret[t] = result[t]

\* A request with an invalid relative URI, in ALWAYS mode, authenticated.
C19_Witness ==
    /\ pc["t1"] = "done"
    /\ seen["t1"].authorization_mode = Some("ALWAYS")
    /\ s["t1"].relative_uri = <<"b","/","k">>
    /\ HasValue(seen["t1"].snapshot)
    /\ ~Value(seen["t1"].snapshot).valid_
    /\ AuthenticateRESTCalls("t1") # {}
    /\ ~ret["t1"].is_err_

\* The positions of '/' in a string.
Slashes(str) == {i \in DOMAIN str : str[i] = "/"}

\* C20: with a non-empty method and a relative URI beginning with '/' the
\* snapshot is valid and the rest of the URI is split at its first '/':
\* '/b' gives bucket 'b' and an empty key, '/b/' the same, '/b//k' gives
\* bucket 'b' and key '/k', '/b/k/x' gives key 'k/x', and '/' alone is
\* valid with empty bucket and key.
C20_SnapshotSplit ==
    (/\ HasValue(call_out)
     /\ HasValue(call_in.method)
     /\ Value(call_in.method) # << >>
     /\ call_in.relative_uri # << >>
     /\ Head(call_in.relative_uri) = "/") =>
        LET p == Value(call_out)
            uri == call_in.relative_uri
            rest == Tail(uri)
        IN  /\ p.valid_
            /\ p.method_ = Value(call_in.method)
            /\ IF Slashes(rest) = {}
               THEN p.bucket_name_ = rest /\ p.object_key_name_ = << >>
               ELSE \E i \in Slashes(rest) :
                       /\ \A j \in Slashes(rest) : i <= j
                       /\ p.bucket_name_ = SubSeq(rest, 1, i - 1)
                       /\ p.object_key_name_ = SubSeq(rest, i + 1, Len(rest))
            /\ uri = <<"/","b">> =>
                  p.bucket_name_ = <<"b">> /\ p.object_key_name_ = << >>
            /\ uri = <<"/","b","/">> =>
                  p.bucket_name_ = <<"b">> /\ p.object_key_name_ = << >>
            /\ uri = <<"/","b","/","/","k">> =>
                  p.bucket_name_ = <<"b">> /\ p.object_key_name_ = <<"/","k">>
            /\ uri = <<"/","b","/","k","/","x">> =>
                  p.bucket_name_ = <<"b">> /\ p.object_key_name_ = <<"k","/","x">>
            /\ uri = <<"/">> =>
                  p.bucket_name_ = << >> /\ p.object_key_name_ = << >>

\* The snapshot of GET /b/k/x.
C20_Witness ==
    /\ HasValue(call_out)
    /\ call_in.method = Some(<<"G","E","T">>)
    /\ call_in.relative_uri = <<"/","b","/","k","/","x">>
    /\ Value(call_out).valid_
    /\ Value(call_out).object_key_name_ = <<"k","/","x">>

SigningKeyCalls(t) ==
    {i \in DOMAIN calls[t] : calls[t][i].rpc = "GetSigningKey"}

\* C21: each auth() call issues at most one AuthenticateREST call and at
\* most one GetSigningKey call, under every outcome, transport errors
\* included: a failed outbound call is never repeated within the request.
C21_NoRetry ==
    \A t \in Threads :
        /\ Cardinality(AuthenticateRESTCalls(t)) <= 1
        /\ Cardinality(SigningKeyCalls(t)) <= 1
        /\ Len(calls[t]) <= 2

\* An auth() call that ended after its only AuthenticateREST call failed,
\* and one that ended after its only GetSigningKey call failed.
C21_Witness ==
    /\ pc["t1"] = "done"
    /\ Len(calls["t1"]) = 2
    /\ calls["t1"][1].rpc = "AuthenticateREST"
    /\ calls["t1"][2].rpc = "GetSigningKey"
    /\ HasValue(calls["t1"][2].status)
    /\ ~Value(calls["t1"][2].status).ok
    /\ ret["t1"].is_err_

\* The reduction of the pair (authparam_always, authparam_withtoken).
ModeTable ==
    <<TRUE, TRUE>> :> "ALWAYS" @@ <<TRUE, FALSE>> :> "ALWAYS"
    @@ <<FALSE, TRUE>> :> "WITHTOKEN" @@ <<FALSE, FALSE>> :> "NEVER"
ModeOf(c) ==
    ModeTable[<<c["rgw_handoff_authparam_always"],
                c["rgw_handoff_authparam_withtoken"]>>]

\* C22: the capture mode is ALWAYS if authparam_always is true, else
\* WITHTOKEN if authparam_withtoken is true, else NEVER; after a change
\* notification naming either key has been handled, and after init, the
\* engine's capture mode equals this reduction of the current
\* configuration.
C22_ModeReduction ==
    [][/\ (changed \cap AuthParamKeys # {} /\ changed' \cap AuthParamKeys = {})
            => authorization_mode_' = ModeOf(conf')
       /\ (~observer_added_ /\ observer_added_' /\ HasValue(channel_'))
            => authorization_mode_' = ModeOf(conf')
       /\ (HasValue(channel_') /\ changed' \cap AuthParamKeys = {})
            => authorization_mode_' = ModeOf(conf')]_vars

\* The mode is NEVER although init failed before it set the mode: a
\* notification set it.
C22_Witness ==
    /\ observer_added_
    /\ ~HasValue(channel_)
    /\ changed = {}
    /\ ~conf["rgw_handoff_authparam_always"]
    /\ ~conf["rgw_handoff_authparam_withtoken"]
    /\ authorization_mode_ = "NEVER"

SQCalled(fns) == HasValue(call_out) /\ Value(call_out).fn \in fns
SQHeader == Value(call_in.hdr)
SQOut == Value(call_out).out
LengthMessage ==
    "x-rgw-storequery header exceeds maximum length of 2048 chars"
EmptyMessage == "illegal empty x-rgw-storequery header"
CharacterMessage == "Illegal character found in x-rgw-storequery"

\* C24: the x-rgw-storequery parser never rejects a header for its length
\* when the header is 1 to 2048 bytes long, rejects every header of 2049
\* bytes or more, and rejects the empty header.
C24_HeaderLength ==
    SQCalled({"tokenize", "parse"}) =>
        /\ Len(SQHeader) = 0 => (~SQOut.ret /\ SQOut.thrown = NoException)
        /\ Len(SQHeader) >= 2049 => (~SQOut.ret /\ SQOut.thrown = NoException)
        /\ Len(SQHeader) \in 1..2048 =>
              SQOut.log \notin {LengthMessage, EmptyMessage}

\* A header of 2048 bytes parsed into an op.
C24_Witness ==
    /\ SQCalled({"parse"})
    /\ Len(SQHeader) = 2048
    /\ call_in.parser = reset
    /\ SQOut.ret
    /\ SQOut.parser.op_ # NullOp

\* The bytes of the model outside the range 32 to 126.
OutOfRange == {"BEL", "LF", "US", "DEL", "0x80", "0xFF"}

\* C25: the x-rgw-storequery parser rejects every header that contains any
\* byte outside the range 32 to 126 (control characters, byte 127, bytes of
\* value 128 or more), and a header whose bytes are all within 32 to 126 is
\* never rejected because of its characters.
C25_PrintableOnly ==
    SQCalled({"tokenize", "parse"}) =>
        IF \E i \in DOMAIN SQHeader : SQHeader[i] \in OutOfRange
        THEN ~SQOut.ret /\ SQOut.thrown = NoException
        ELSE SQOut.log # CharacterMessage

\* C26: on a fresh parser, tokenize splits an accepted header at the spaces
\* outside double quotes: the first token, lowercased, is the command and
\* the remaining tokens, in order and with case preserved, are the
\* parameters; a double-quoted token keeps its inner spaces and loses its
\* quotes, and backslash-quote yields a literal double quote inside and
\* outside a quoted token.
RECURSIVE Join(_)
Join(tokens) ==
    IF Len(tokens) = 0 THEN << >>
    ELSE IF Len(tokens) = 1 THEN tokens[1]
    ELSE tokens[1] \o <<" ">> \o Join(Tail(tokens))
C26_Tokenize ==
    (/\ SQCalled({"tokenize"})
     /\ call_in.parser = reset
     /\ SQOut.ret
     /\ Len(SQHeader) <= 40) =>
        LET h == SQHeader
            p == SQOut.parser
        IN  /\ p.command_ = to_lower(p.command_)
            /\ (\A i \in DOMAIN h : h[i] \notin {"\"", "\\"}) =>
                  /\ \A k \in DOMAIN p.param_ :
                        \A i \in DOMAIN p.param_[k] : p.param_[k][i] # " "
                  /\ \A i \in DOMAIN p.command_ : p.command_[i] # " "
                  /\ to_lower(h) = to_lower(Join(<<p.command_>> \o p.param_))
                  /\ Len(p.param_) > 0 =>
                        SubSeq(h, Len(p.command_) + 2, Len(h)) = Join(p.param_)
            /\ h = <<"o", "n", "e", " ", "t", "w", "o", " ", "t", "h", "r", "e", "e">> =>
                  /\ p.command_ = <<"o", "n", "e">>
                  /\ p.param_ = <<<<"t", "w", "o">>, <<"t", "h", "r", "e", "e">>>>
            /\ h = <<"o", "n", "e", " ", "\"", "t", "w", "o", ",", " ", "t", "w", "o", "-", "a", "n", "d", "-", "a", "-", "h", "a", "l", "f", "\"", " ", "t", "h", "r", "e", "e">> =>
                  /\ p.command_ = <<"o", "n", "e">>
                  /\ p.param_ = <<<<"t", "w", "o", ",", " ", "t", "w", "o", "-", "a", "n", "d", "-", "a", "-", "h", "a", "l", "f">>, <<"t", "h", "r", "e", "e">>>>
            /\ h = <<"o", "n", "e", " ", "\"", "t", "w", "o", "\\", "\"", "\"", " ", "t", "h", "r", "e", "e">> =>
                  /\ p.command_ = <<"o", "n", "e">>
                  /\ p.param_ = <<<<"t", "w", "o", "\"">>, <<"t", "h", "r", "e", "e">>>>
            /\ h = <<"o", "n", "e", " ", "\"", "t", "w", "o", "\"", " ", "t", "h", "\\", "\"", "r", "e", "e">> =>
                  /\ p.command_ = <<"o", "n", "e">>
                  /\ p.param_ = <<<<"t", "w", "o">>, <<"t", "h", "\"", "r", "e", "e">>>>
            /\ h = <<"P", "I", "N", "G", " ", "F", "o", "o">> =>
                  /\ p.command_ = <<"p", "i", "n", "g">>
                  /\ p.param_ = <<<<"F", "o", "o">>>>
            /\ h = <<"p", "i", "n", "g", " ", "\"", "a", " ", "b", "\"">> =>
                  /\ p.command_ = <<"p", "i", "n", "g">>
                  /\ p.param_ = <<<<"a", " ", "b">>>>
            /\ h = <<"p", "i", "n", "g", " ", " ", "f", "o", "o">> =>
                  /\ p.command_ = <<"p", "i", "n", "g">>
                  /\ p.param_ = <<<<>>, <<"f", "o", "o">>>>
            /\ h = <<"\"", " ", "\"">> =>
                  /\ p.command_ = <<" ">>
                  /\ p.param_ = <<>>
            /\ h = <<"\\", "\"", "a">> =>
                  /\ p.command_ = <<"\"", "a">>
                  /\ p.param_ = <<>>

\* The header one "two\"" three tokenized on a fresh parser.
C26_Witness ==
    /\ SQCalled({"tokenize"})
    /\ call_in.parser = reset
    /\ SQHeader = <<"o", "n", "e", " ", "\"", "t", "w", "o", "\\", "\"", "\"", " ", "t", "h", "r", "e", "e">>
    /\ SQOut.ret
    /\ SQOut.parser.param_ = <<<<"t", "w", "o", "\"">>, <<"t", "h", "r", "e", "e">>>>

\* C27: on a fresh or reset parser, parse returns true and op() is non-null
\* exactly when the command is ping with exactly one parameter, in any
\* handler context, or objectstatus with zero parameters in the Obj
\* context; in every other case in which parse returns, it returns false
\* and op() is null.  The op is a ping op for ping and an object-status op
\* for objectstatus.
C27_ParseCommands ==
    (/\ SQCalled({"parse"})
     /\ call_in.parser = reset
     /\ SQOut.thrown = NoException) =>
        LET p == SQOut.parser
            ping == /\ p.command_ = <<"p","i","n","g">>
                    /\ Len(p.param_) = 1
            objectstatus ==
                    /\ p.command_ = <<"o","b","j","e","c","t","s","t","a","t","u","s">>
                    /\ Len(p.param_) = 0
                    /\ call_in.handler_type = "Obj"
        IN  /\ SQOut.ret <=> (ping \/ objectstatus)
            /\ SQOut.ret <=> p.op_ # NullOp
            /\ (SQOut.ret /\ ping) =>
                  /\ Value(p.op_).name = "storequery_ping"
                  /\ Value(p.op_).request_id_ = p.param_[1]
            /\ (SQOut.ret /\ objectstatus) =>
                  Value(p.op_).name = "storequery_objectstatus"

\* ObjectStatus parsed in the Obj context.
C27_Witness ==
    /\ SQCalled({"parse"})
    /\ call_in.parser = reset
    /\ SQHeader = <<"O", "b", "j", "e", "c", "t", "S", "t", "a", "t", "u", "s">>
    /\ call_in.handler_type = "Obj"
    /\ SQOut.ret
    /\ Value(SQOut.parser.op_).name = "storequery_objectstatus"

\* C28: for a GET request, when the x-rgw-storequery header is absent
\* op_get yields no StoreQuery op; when the header is present and the
\* parser does not accept it, for any reason, op_get raises the
\* internal-error code and yields no op.
C28_RejectedHeaderIsInternalError ==
    SQCalled({"op_get"}) =>
        IF ~HasValue(call_in.hdr)
        THEN SQOut.ret = NullOp /\ SQOut.thrown = NoException
        ELSE \/ SQOut.ret # NullOp /\ SQOut.thrown = NoException
             \/ /\ SQOut.ret = NullOp
                /\ SQOut.thrown = ThrownInt(Neg("ERR_INTERNAL_ERROR"))

(***************************************************************************)
(* objectstatus: the outcome of a request, read from the results the store *)
(* returned to it, and the response it sent.                               *)
(***************************************************************************)
OSLastList == objectstatus_op.lists[Len(objectstatus_op.lists)]
OSLastMultiparts ==
    objectstatus_op.multiparts[Len(objectstatus_op.multiparts)]
OSSent == objectstatus_op.pc = "sent"
OSStatus == Value(objectstatus_op.response).status
OSEmitted(name) ==
    \E i \in 1..Len(Value(objectstatus_op.response).json) :
        Value(objectstatus_op.response).json[i][1] = name
OSField(name) ==
    LET json == Value(objectstatus_op.response).json
    IN  json[CHOOSE i \in 1..Len(json) : json[i][1] = name][2]
\* The current entries with the key in a page, the uploads with the key.
OSCurrent(page) ==
    {n \in 1..Len(page) : page[n].name = ObjectKey /\ page[n].current}
OSUploading(page) == {n \in 1..Len(page) : page[n].key = ObjectKey}
OSLeast(S) == CHOOSE n \in S : \A m \in S : n <= m
OSFoundCommitted ==
    /\ objectstatus_op.lists # << >>
    /\ OSLastList.ret = NoCode
    /\ OSCurrent(OSLastList.objs) # {}
OSFoundMultipart ==
    /\ objectstatus_op.multiparts # << >>
    /\ OSLastMultiparts.ret = NoCode
    /\ OSUploading(OSLastMultiparts.uploads) # {}
OSListFailed ==
    /\ objectstatus_op.lists # << >>
    /\ OSLastList.ret.sign < 0
OSMultipartsFailed ==
    /\ objectstatus_op.multiparts # << >>
    /\ OSLastMultiparts.ret.sign < 0
OSFoundNowhere ==
    /\ objectstatus_op.multiparts # << >>
    /\ OSLastMultiparts.ret = NoCode
    /\ OSLastMultiparts.uploads = << >>

\* C29: a finished objectstatus request is in exactly one of four
\* outcomes, and its response follows the outcome.  Found as a committed
\* object: status 0, multipart_upload_in_progress false, deleted is the
\* delete-marker flag of the entry, version_id and size are emitted exactly
\* when it is not deleted, and size is the size of the entry.  Found as a
\* multipart upload in progress: status 0, deleted false,
\* multipart_upload_in_progress true, multipart_upload_id is the id of the
\* matching upload, no size.  Listing error: the negative status of the
\* listing that failed.  Found nowhere: -ENOENT.  And list_multiparts is
\* called only after a committed-object scan that neither found the key
\* nor failed.
C29_Outcomes ==
    /\ OSSent =>
        /\ Cardinality({o \in {"committed", "multipart", "error", "nowhere"} :
              \/ o = "committed" /\ OSFoundCommitted
              \/ o = "multipart" /\ OSFoundMultipart
              \/ o = "error" /\ (OSListFailed \/ OSMultipartsFailed)
              \/ o = "nowhere" /\ OSFoundNowhere}) = 1
        /\ OSFoundCommitted =>
              LET entry == OSLastList.objs[OSLeast(OSCurrent(OSLastList.objs))]
              IN  /\ OSStatus = NoCode
                  /\ OSField("multipart_upload_in_progress") = FALSE
                  /\ OSField("deleted") = entry.delete_marker
                  /\ OSEmitted("version_id") <=> ~entry.delete_marker
                  /\ OSEmitted("size") <=> ~entry.delete_marker
                  /\ ~entry.delete_marker => OSField("size") = entry.size
        /\ OSFoundMultipart =>
              LET upload == OSLastMultiparts.uploads[
                                OSLeast(OSUploading(OSLastMultiparts.uploads))]
              IN  /\ OSStatus = NoCode
                  /\ OSField("deleted") = FALSE
                  /\ OSField("multipart_upload_in_progress") = TRUE
                  /\ OSEmitted("multipart_upload_id")
                  /\ OSField("multipart_upload_id") = upload.upload_id
                  /\ ~OSEmitted("size")
        /\ OSListFailed => OSStatus = OSLastList.ret
        /\ OSMultipartsFailed => OSStatus = OSLastMultiparts.ret
        /\ (OSListFailed \/ OSMultipartsFailed) => OSStatus.sign < 0
        /\ OSFoundNowhere => OSStatus = Neg("ENOENT")
    /\ (objectstatus_op.multiparts # << >>) =>
          \A i \in 1..Len(objectstatus_op.lists) :
              /\ objectstatus_op.lists[i].ret = NoCode
              /\ OSCurrent(objectstatus_op.lists[i].objs) = {}

\* A request that found the key as a committed object of 7 bytes on the
\* second page of the listing, behind a version that is not current.
C29_Witness ==
    /\ OSSent
    /\ Len(objectstatus_op.lists) = 2
    /\ OSFoundCommitted
    /\ objectstatus_op.lists[1].objs[1].name = ObjectKey
    /\ OSField("deleted") = FALSE
    /\ OSField("size") = 7

\* C30: a failed bucket->list of the committed-object scan is the last call
\* of the request: no page is asked for after it, list_multiparts is never
\* called, and the request ends with the status of the failure, which is
\* neither 0 (found) nor -ENOENT.
C30_ListFailureStops ==
    \A i \in 1..Len(objectstatus_op.lists) :
        (objectstatus_op.lists[i].ret.sign < 0) =>
            /\ i = Len(objectstatus_op.lists)
            /\ objectstatus_op.multiparts = << >>
            /\ objectstatus_op.pc \in {"executed", "sent"}
            /\ objectstatus_op.op_ret = objectstatus_op.lists[i].ret
            /\ objectstatus_op.op_ret \notin {NoCode, Neg("ENOENT")}
            /\ ~objectstatus_op.object_mpuploading_
            /\ OSSent => OSStatus = objectstatus_op.lists[i].ret

\* The second list call fails with -EIO, for a key that has a current
\* entry further on in the listing and an upload in progress.
C30_Witness ==
    /\ OSSent
    /\ Len(objectstatus_op.lists) = 2
    /\ OSLastList.ret = Neg("EIO")
    /\ OSStatus = Neg("EIO")
    /\ OSCurrent(call_in.objs) # {}
    /\ OSUploading(call_in.uploads) # {}

\* C31: execute() terminates for every finite listing and upload table.
\* Each scan moves its cursor forward with every page that does not end
\* it, asks for at most one page per entry and one more, and the request
\* reaches the end of execute().
C31_Terminates ==
    /\ [][/\ (objectstatus_op.pc = "simple" /\ objectstatus_op'.pc = "simple")
              => objectstatus_op'.marker > objectstatus_op.marker
          /\ (objectstatus_op.pc = "mpupload"
               /\ objectstatus_op'.pc = "mpupload")
              => objectstatus_op'.mp_marker > objectstatus_op.mp_marker]_vars
    /\ [](/\ Len(objectstatus_op.lists) <= Len(call_in.objs) + 1
          /\ Len(objectstatus_op.multiparts) <= Len(call_in.uploads) + 1)
    /\ <>(objectstatus_op.pc \in {"executed", "sent"})

\* execute() has ended after three pages of the listing and two of the
\* upload table.
C31_Witness ==
    /\ objectstatus_op.pc = "executed"
    /\ Len(objectstatus_op.lists) = 3
    /\ Len(objectstatus_op.multiparts) = 2
    /\ objectstatus_op.marker = 2
    /\ objectstatus_op.mp_marker = 1

\* C32: when no list call failed, the committed-object scan ends found
\* exactly when the whole listing has a current entry with exactly the
\* key; it then takes the first such entry of the listing, sets deleted to
\* its delete-marker flag and records its size only when it is not a
\* delete marker.  Entries of longer keys and entries that are not current
\* never end the scan found.
OSScanEnded ==
    /\ objectstatus_op.pc \notin {"new", "simple"}
    /\ ~OSListFailed
OSScanFound ==
    /\ OSScanEnded
    /\ objectstatus_op.pc \in {"executed", "sent"}
    /\ objectstatus_op.multiparts = << >>
C32_ScanFindsFirstCurrent ==
    OSScanEnded =>
        /\ OSScanFound <=> OSCurrent(call_in.objs) # {}
        /\ OSScanFound =>
              LET entry == call_in.objs[OSLeast(OSCurrent(call_in.objs))]
              IN  /\ objectstatus_op.op_ret = NoCode
                  /\ objectstatus_op.object_deleted_ = entry.delete_marker
                  /\ objectstatus_op.object_size_ =
                        IF entry.delete_marker THEN 0 ELSE entry.size
        /\ ~OSScanFound => /\ ~objectstatus_op.object_deleted_
                           /\ objectstatus_op.object_size_ = 0

\* Found on the second page: the listing starts with a version that is not
\* current and holds two current entries, of 7 and of 8 bytes.
C32_Witness ==
    /\ OSScanFound
    /\ Len(objectstatus_op.lists) = 2
    /\ Len(call_in.objs) = 3
    /\ ~call_in.objs[1].current
    /\ call_in.objs[2].size = 7
    /\ call_in.objs[3].size = 8
    /\ objectstatus_op.object_size_ = 7

\* C40: when the committed-object scan ended without finding the key and
\* without a failure, and no list_multiparts call failed, the request ends
\* found exactly when the upload table has an upload with exactly the key,
\* on whatever page it is, and it reports the id of the first such upload;
\* otherwise it ends with -ENOENT.  Uploads of longer keys never count.
C40_MultipartFound ==
    (/\ objectstatus_op.pc \in {"executed", "sent"}
     /\ OSScanEnded
     /\ ~OSScanFound
     /\ ~OSMultipartsFailed) =>
        IF OSUploading(call_in.uploads) # {}
        THEN LET upload == call_in.uploads[OSLeast(OSUploading(call_in.uploads))]
             IN  /\ objectstatus_op.op_ret = NoCode
                 /\ objectstatus_op.object_mpuploading_
                 /\ objectstatus_op.object_mpupload_id_ = upload.upload_id
                 /\ OSSent =>
                       /\ OSStatus = NoCode
                       /\ OSField("multipart_upload_in_progress") = TRUE
                       /\ OSField("multipart_upload_id") = upload.upload_id
        ELSE /\ objectstatus_op.op_ret = Neg("ENOENT")
             /\ ~objectstatus_op.object_mpuploading_
             /\ OSSent => OSStatus = Neg("ENOENT")

\* The upload of the key is on the second page of the table, behind an
\* upload of a longer key.
C40_Witness ==
    /\ OSSent
    /\ Len(objectstatus_op.multiparts) = 2
    /\ call_in.uploads[1].key = "kx"
    /\ OSField("multipart_upload_in_progress") = TRUE
    /\ OSField("multipart_upload_id") = "u2"

\* C33: in a notification that names a reconnect backoff key and
\* rgw_handoff_grpc_uri, the channel is replaced only after the block for
\* the channel arguments of that notification has run, and the new channel
\* is created with the arguments that block derived and stored.
C33_ArgsBeforeUri ==
    [][(/\ channel_' # channel_
        /\ notified \cap BackoffKeys # {}
        /\ notified \cap UriKeys # {}) =>
           /\ changed \cap BackoffKeys = {}
           /\ channel_args_ = Some(get_default_channel_args(conf))
           /\ Value(channel_').args = Value(channel_args_)
           /\ Value(channel_').uri = conf["rgw_handoff_grpc_uri"]]_vars

\* A notification names the maximum backoff and the URI; its block for
\* the channel arguments has run and the channel for the old URI is about
\* to be replaced.
C33_Witness ==
    /\ "rgw_handoff_grpc_arg_max_reconnect_backoff_ms" \in notified
    /\ "rgw_handoff_grpc_uri" \in notified
    /\ changed = UriKeys
    /\ channel_args_ = Some(get_default_channel_args(conf))
    /\ HasValue(channel_)
    /\ Value(channel_).uri # conf["rgw_handoff_grpc_uri"]

\* C34: once the block for the channel arguments of a notification that
\* names a reconnect backoff key has run, the stored channel arguments
\* carry the configured initial, minimum and maximum reconnect backoff, and
\* so does a channel created afterwards.
C34_Carries(args) ==
    /\ "GRPC_ARG_INITIAL_RECONNECT_BACKOFF_MS" \in DOMAIN args
    /\ "GRPC_ARG_MIN_RECONNECT_BACKOFF_MS" \in DOMAIN args
    /\ "GRPC_ARG_MAX_RECONNECT_BACKOFF_MS" \in DOMAIN args
    /\ args["GRPC_ARG_INITIAL_RECONNECT_BACKOFF_MS"] =
           conf["rgw_handoff_grpc_arg_initial_reconnect_backoff_ms"]
    /\ args["GRPC_ARG_MIN_RECONNECT_BACKOFF_MS"] =
           conf["rgw_handoff_grpc_arg_min_reconnect_backoff_ms"]
    /\ args["GRPC_ARG_MAX_RECONNECT_BACKOFF_MS"] =
           conf["rgw_handoff_grpc_arg_max_reconnect_backoff_ms"]
C34_StoredArgsCarryBackoff ==
    (/\ notified \cap BackoffKeys # {}
     /\ changed \cap BackoffKeys = {}) =>
        /\ HasValue(channel_args_)
        /\ C34_Carries(Value(channel_args_))

\* C37: a notification that names several runtime toggles is applied
\* atomically with respect to requests.  While an auth() call holds the
\* shared lock, it has not read the new value of a toggle of the running
\* notification whose block has run together with the old value of a
\* toggle of the same notification whose block is still to run.
C37_Toggles == {"chunked_upload", "signature_v2", "authorization_mode"}
C37_Keys(toggle) ==
    IF toggle = "chunked_upload" THEN ChunkedKeys
    ELSE IF toggle = "signature_v2" THEN SignatureV2Keys
    ELSE AuthParamKeys
C37_SawNew(t, toggle) ==
    IF toggle = "chunked_upload"
    THEN seen[t].chunked_upload =
             Some(conf["rgw_handoff_enable_chunked_upload"])
    ELSE IF toggle = "signature_v2"
    THEN seen[t].signature_v2 = Some(conf["rgw_handoff_enable_signature_v2"])
    ELSE seen[t].authorization_mode = Some(ModeOf(conf))
C37_SawOld(t, toggle) ==
    IF toggle = "chunked_upload"
    THEN /\ HasValue(seen[t].chunked_upload)
         /\ ~C37_SawNew(t, toggle)
    ELSE IF toggle = "signature_v2"
    THEN /\ HasValue(seen[t].signature_v2)
         /\ ~C37_SawNew(t, toggle)
    ELSE /\ HasValue(seen[t].authorization_mode)
         /\ ~C37_SawNew(t, toggle)
C37_NotificationAtomic ==
    \A t \in Threads : \A a, b \in C37_Toggles :
        (/\ t \in m_config_
         /\ C37_Keys(a) \cap notified # {}
         /\ C37_Keys(a) \cap changed = {}
         /\ C37_Keys(b) \cap changed # {}) =>
            ~(C37_SawNew(t, a) /\ C37_SawOld(t, b))

\* C38: every failure verdict that auth() returns carries a negative
\* gateway error code, the verdicts built by
\* _translate_authenticator_error_code from an S3ErrorDetails included.
C38_ErrCodesNegative ==
    \A t \in Threads :
        (pc[t] = "done" /\ ret[t].is_err_) => ret[t].errorcode_.sign < 0

\* C39: what parse returns and the command() and param() it leaves depend
\* only on the header and the handler type: on a parser that already
\* parsed a header and was not reset, parse gives what it gives on a fresh
\* parser.
C39_ParseIgnoresHistory ==
    SQCalled({"parse"}) =>
        LET fresh == parse(reset, SQHeader, call_in.handler_type,
                           call_in.char_signed)
        IN  /\ SQOut.ret = fresh.ret
            /\ SQOut.thrown = fresh.thrown
            /\ SQOut.parser.command_ = fresh.parser.command_
            /\ SQOut.parser.param_ = fresh.parser.param_

\* C36: start() and stop() are safe in any sequence.  start() never
\* assigns a new thread over one that is still joinable (the process is
\* never terminated for it), there is a thread only while a call is in
\* progress or the server was started, and after a stop() that has
\* returned the thread is joined and the server does not run.
C36_StartStopSafe ==
    /\ test_server.caller # "terminated"
    /\ (/\ test_server.caller = "idle"
        /\ test_server.calls # << >>
        /\ test_server.calls[Len(test_server.calls)] = "stop") =>
            /\ test_server.server_thread_ = "none"
            /\ ~test_server.running
            /\ ~test_server.initialising
\* C35: under any interleaving of concurrent calls of the Error Translator,
\* the first ones included, the block that fills the error map runs at most
\* once, a caller searches the map only when the block has run to its end
\* and the map holds every entry of auth_list, and the result of each call
\* is the one that its arguments alone determine.
C35_TranslatorDeterministic ==
    /\ translator.populated <= 1
    /\ translator.populated = 1 <=>
           (translator.map_init = "done" /\ translator.auth_map = auth_map)
    /\ \A t \in TranslatorThreads :
        LET th == translator.threads[t] IN
        /\ th.pc \in {"find", "returned"} =>
               /\ translator.populated = 1
               /\ translator.auth_map = auth_map
        /\ th.pc = "returned" =>
               th.result = Some(_translate_authenticator_error_code(
                                    th.auth_type, th.auth_http_status_code,
                                    th.message))

\* Two first calls side by side: one thread is in the block with the map
\* partly filled, and another, whose error type the map does not hold yet,
\* is held at call_once.
C35_Witness ==
    \E t, u \in TranslatorThreads :
        /\ translator.threads[t].pc = "populate"
        /\ translator.inserted > 0
        /\ translator.inserted < Len(auth_list)
        /\ translator.threads[u].pc = "call_once"
        /\ translator.threads[u].auth_type = "TYPE_TOKEN_REFRESH_REQUIRED"

====
